---- MODULE Spec2Model ----
(***************************************************************************)
(* Model of k8s-exposer: the edge server's service registry (listeners,    *)
(* port allocation), the agent's send/reconnect loop and the server's      *)
(* per-connection handler.                                                 *)
(***************************************************************************)
EXTENDS Integers, Sequences, FiniteSets, TLC

(***************************************************************************)
(* Bounds of the model.                                                    *)
(***************************************************************************)
\* longest desired-state list handed to one Update
MaxServices == 2
\* number of ports in the dynamic allocation range
RangeSize == 2
\* most messages in flight on one agent connection
MaxWire == 2

(***************************************************************************)
(* Configuration and data model.                                           *)
(***************************************************************************)
PortRangeStart == 30000
PortRangeEnd == PortRangeStart + RangeSize - 1

Subdomains == {"a", "b"}

PortMapping(port, protocol) ==
    [Port |-> port, TargetPort |-> 8080, Protocol |-> protocol]

ExposedService(subdomain, ip, ports) ==
    [Name |-> subdomain, Namespace |-> "default", Subdomain |-> subdomain,
     Ports |-> ports, TargetIP |-> ip]

\* the services the agent discovers (ExposedService.Validate passes on each):
\* "a" listens on tcp 80, alone or together with the first port of the
\* dynamic range; "b" asks for port 80 under each of the three protocols
ServiceConfigs ==
    { ExposedService("a", "10.0.0.42", << PortMapping(80, "tcp") >>),
      ExposedService("a", "10.0.0.42", << PortMapping(80, "tcp"), PortMapping(PortRangeStart, "tcp") >>),
      ExposedService("b", "10.0.0.43", << PortMapping(80, "tcp") >>),
      ExposedService("b", "10.0.0.43", << PortMapping(80, "udp") >>),
      ExposedService("b", "10.0.0.43", << PortMapping(80, "tcp+udp") >>) }

RECURSIVE SeqsUpTo(_, _)
SeqsUpTo(S, n) ==
    IF n = 0 THEN { << >> }
    ELSE LET shorter == SeqsUpTo(S, n - 1)
         IN  shorter \cup { Append(q, x) : q \in { t \in shorter : Len(t) = n - 1 }, x \in S }

Rank(subdomain) == IF subdomain = "a" THEN 1 ELSE 2

\* the desired states an agent can push.  Update reads the list into a map
\* keyed by subdomain, so only the relative order of entries with the same
\* subdomain matters: the lists are taken with subdomains in rank order.
DesiredStates ==
    { q \in SeqsUpTo(ServiceConfigs, MaxServices) :
        \A i, j \in 1..Len(q) : i < j => Rank(q[i].Subdomain) <= Rank(q[j].Subdomain) }

\* sockets of the host that another process holds when a listener is started
ExternalBusy == { {}, { <<80, "tcp">> } }

Restrict(f, S) == [x \in S |-> f[x]]

Perms(S) ==
    { q \in [1..Cardinality(S) -> S] : \A i, j \in 1..Cardinality(S) : i # j => q[i] # q[j] }

(***************************************************************************)
(* State.                                                                  *)
(***************************************************************************)
VARIABLES
    services,        \* subdomain -> ExposedService
    listeners,       \* portKey -> PortListener (running listeners)
    allocatedPorts,  \* set of portKeys
    events,          \* history: listener events of the last registry call, in order
    lastOp           \* history: the last registry call and its argument

regVars == << services, listeners, allocatedPorts, events, lastOp >>

\* the agents (ServerClient) and their connections to the server
VARIABLES
    active,          \* the agents that are deployed
    pc,              \* agent -> position of ServerClient.Run
    conn,            \* agent -> "nil" or "open": Connection.conn
    link,            \* agent -> "up" or "down": the TCP connection under conn
    wire,            \* agent -> messages sent and not yet received by the handler
    lastServices,    \* agent -> ServerClient.lastServices
    retry,           \* agent -> `services` of the Run iteration that reconnects
    hb,              \* agent -> the heartbeat ticker is running
    lastSend,        \* history: agent -> outcome of the latest Connection.Send
    resent           \* history: agent -> Run has sent its set again after a reconnect

agentVars == << active, pc, conn, link, wire, lastServices, retry, hb, lastSend, resent >>

\* the parts of the program that are modelled on their own: each of these
\* variables holds the state of one component and stays at its idle value
\* in the specifications of the other components
VARIABLES
    peers,           \* server side of the agent connections: frames, handlers
    reconn,          \* Connection.Reconnect: attempts and waits
    udp,             \* Forwarder: UDP sessions and their sockets
    tcp,             \* Forwarder.ForwardTCP: one forwarded connection
    disc,            \* agent discovery: the cluster and the services emitted
    hap              \* automation controller: HAProxy map file and commands

VARIABLES
    ctl,             \* automation controller: firewall, counters, result
    lis,             \* one PortListener: sockets, loops, handler tasks
    snd,             \* Connection.Send: the producers and the bytes on the wire
    chn,             \* agent main: serviceUpdateCh between watcher and client
    rec,             \* Controller.Run and handleSync: Reconcile executions
    dgm,             \* Forwarder.ForwardUDP: concurrently handled datagrams
    fwd,             \* the Forwarder shared by the UDP listeners of the registry
    ord,             \* agent: discovery and hand-off by the watcher and the periodic sync
    lck              \* Forwarder: udpMu and the locks of the sessions

moreVars == << ctl, lis, snd, chn, rec, dgm, fwd, ord, lck >>

extVars == << peers, reconn, udp, tcp, disc, hap, moreVars >>

Registry ==
    [services |-> services, listeners |-> listeners,
     allocatedPorts |-> allocatedPorts, events |-> << >>]

\* an event: "alloc" (key = the requested key, res = the port returned, 0 on
\* error), "start", "startfail", "stop" (key = the listener's key)
Event(e, key, sub, res) ==
    [e |-> e, key |-> key, sub |-> sub, res |-> res]

(***************************************************************************)
(* Port keys and allocation.                                               *)
(***************************************************************************)
portKey(port, protocol) == << port, protocol >>

isPortAvailableLocked(alloc, port, protocol) ==
    portKey(port, protocol) \notin alloc

\* variant: the allocation is never released
deallocatePortLocked_Noop(alloc, port, protocol) == alloc

deallocatePortLocked(alloc, port, protocol) ==
    alloc \ { portKey(port, protocol) }

\* variant: the range is scanned from its upper end
FirstFreeInRange_Highest(alloc, protocol) ==
    LET free == { p \in PortRangeStart..PortRangeEnd : portKey(p, protocol) \notin alloc }
    IN  IF free = {} THEN 0
        ELSE CHOOSE p \in free : \A q \in free : p >= q

\* the range scan of allocatePortLocked: the first free port, 0 when none
FirstFreeInRange(alloc, protocol) ==
    LET free == { p \in PortRangeStart..PortRangeEnd : isPortAvailableLocked(alloc, p, protocol) }
    IN  IF free = {} THEN 0
        ELSE CHOOSE p \in free : \A q \in free : p <= q

\* variant: the requested port is handed out without the availability check
allocatePortLocked_NoCheck(alloc, port, protocol) ==
    [ok |-> TRUE, port |-> port, alloc |-> alloc \cup { portKey(port, protocol) }]

\* result: ok = FALSE is the "no available ports" error
allocatePortLocked(alloc, port, protocol) ==
    IF isPortAvailableLocked(alloc, port, protocol)
    THEN [ok |-> TRUE, port |-> port, alloc |-> alloc \cup { portKey(port, protocol) }]
    ELSE LET p == FirstFreeInRange(alloc, protocol)
         IN  IF p # 0
             THEN [ok |-> TRUE, port |-> p, alloc |-> alloc \cup { portKey(p, protocol) }]
             ELSE [ok |-> FALSE, port |-> 0, alloc |-> alloc]

(***************************************************************************)
(* Port listener: the sockets it binds.                                    *)
(***************************************************************************)
NewPortListener(port, protocol, svc) ==
    [port |-> port, protocol |-> protocol, target |-> svc]

\* sockets bound by Start for a protocol
ListenerSockets(port, protocol) ==
    IF protocol = "tcp+udp" THEN { <<port, "tcp">>, <<port, "udp">> }
    ELSE { <<port, protocol>> }

\* sockets held by the listeners that are running
BoundSockets(ls) ==
    UNION { ListenerSockets(ls[k].port, ls[k].protocol) : k \in DOMAIN ls }

\* Start succeeds iff every socket it needs can be bound; a failed tcp+udp
\* start leaves no socket bound
ListenerStartOk(ls, port, protocol, busy) ==
    ListenerSockets(port, protocol) \cap (BoundSockets(ls) \cup busy) = {}

(***************************************************************************)
(* Registry operations on a registry value r.                              *)
(***************************************************************************)
\* the loop body of addServiceLocked for the port mappings i..Len(svc.Ports)
RECURSIVE AddPorts(_, _, _, _)
AddPorts(r, svc, i, busy) ==
    IF i > Len(svc.Ports) THEN r
    ELSE
      LET pm == svc.Ports[i]
          a == allocatePortLocked(r.allocatedPorts, pm.Port, pm.Protocol)
          req == portKey(pm.Port, pm.Protocol)
          allocEv == Event("alloc", req, svc.Subdomain, a.port)
      IN
        IF ~a.ok
        THEN AddPorts([r EXCEPT !.events = Append(@, allocEv)], svc, i + 1, busy)
        ELSE
          LET key == portKey(a.port, pm.Protocol)
          IN
            IF ~ListenerStartOk(r.listeners, a.port, pm.Protocol, busy)
            THEN AddPorts([r EXCEPT
                     !.allocatedPorts = deallocatePortLocked(a.alloc, a.port, pm.Protocol),
                     !.events = Append(Append(@, allocEv),
                                       Event("startfail", key, svc.Subdomain, 0))],
                   svc, i + 1, busy)
            ELSE AddPorts([r EXCEPT
                     !.allocatedPorts = a.alloc,
                     !.listeners = (key :> NewPortListener(a.port, pm.Protocol, svc)) @@ @,
                     !.events = Append(Append(@, allocEv),
                                       Event("start", key, svc.Subdomain, 0))],
                   svc, i + 1, busy)

RegisterService(svcs, svc) == (svc.Subdomain :> svc) @@ svcs

addServiceLocked(r, svc, busy) ==
    AddPorts([r EXCEPT !.services = RegisterService(@, svc)], svc, 1, busy)

\* the key under which removeServiceLocked looks a mapping's listener up
RemovalKey(pm) == portKey(pm.Port, pm.Protocol)

\* the loop of removeServiceLocked over the port mappings i..Len(ports)
RECURSIVE StopPorts(_, _, _)
StopPorts(r, ports, i) ==
    IF i > Len(ports) THEN r
    ELSE
      LET key == RemovalKey(ports[i])
      IN
        IF key \in DOMAIN r.listeners
        THEN StopPorts([r EXCEPT
                 !.listeners = Restrict(@, DOMAIN @ \ {key}),
                 !.allocatedPorts = deallocatePortLocked(@, ports[i].Port, ports[i].Protocol),
                 !.events = Append(@, Event("stop", key, r.listeners[key].target.Subdomain, 0))],
               ports, i + 1)
        ELSE StopPorts(r, ports, i + 1)

\* variant: the listeners are stopped but the service entry stays
removeServiceLocked_KeepsEntry(r, subdomain) ==
    IF subdomain \notin DOMAIN r.services THEN r
    ELSE StopPorts(r, r.services[subdomain].Ports, 1)

removeServiceLocked(r, subdomain) ==
    IF subdomain \notin DOMAIN r.services THEN r
    ELSE
      LET stopped == StopPorts(r, r.services[subdomain].Ports, 1)
      IN  [stopped EXCEPT !.services = Restrict(@, DOMAIN @ \ {subdomain})]

\* variant: the two services are compared by pointer, which never matches
\* the freshly decoded list of an update
servicesEqual_ByIdentity(a, b) == FALSE

servicesEqual(a, b) ==
    /\ a.Name = b.Name /\ a.Namespace = b.Namespace
    /\ a.Subdomain = b.Subdomain /\ a.TargetIP = b.TargetIP
    /\ Len(a.Ports) = Len(b.Ports)
    /\ \A i \in 1..Len(a.Ports) :
          /\ a.Ports[i].Port = b.Ports[i].Port
          /\ a.Ports[i].Protocol = b.Ports[i].Protocol

\* newServices of Update: a later entry of the list replaces an earlier one
\* with the same subdomain
NewServices(D) ==
    [s \in { D[i].Subdomain : i \in 1..Len(D) } |->
        D[CHOOSE i \in 1..Len(D) :
             /\ D[i].Subdomain = s
             /\ \A j \in (i + 1)..Len(D) : D[j].Subdomain # s]]

\* first loop of Update, over the registered subdomains in the order `order`
RECURSIVE UpdateRemove(_, _, _, _)
UpdateRemove(r, new, order, i) ==
    IF i > Len(order) THEN r
    ELSE
      LET sub == order[i]
      IN
        IF sub \notin DOMAIN new
        THEN UpdateRemove(removeServiceLocked(r, sub), new, order, i + 1)
        ELSE IF ~servicesEqual(r.services[sub], new[sub])
             THEN UpdateRemove(removeServiceLocked(r, sub), new, order, i + 1)
             ELSE UpdateRemove(r, new, order, i + 1)

\* second loop of Update, over newServices in the order `order`
RECURSIVE UpdateAdd(_, _, _, _, _)
UpdateAdd(r, new, order, i, busy) ==
    IF i > Len(order) THEN r
    ELSE
      LET sub == order[i]
      IN
        IF sub \notin DOMAIN r.services
        THEN UpdateAdd(addServiceLocked(r, new[sub], busy), new, order, i + 1, busy)
        ELSE UpdateAdd(r, new, order, i + 1, busy)

\* Update(services): the iteration orders of the two map ranges are inputs
UpdateRegistry(r, D, rmOrder, addOrder, busy) ==
    LET new == NewServices(D)
    IN  UpdateAdd(UpdateRemove(r, new, rmOrder, 1), new, addOrder, 1, busy)

CloseRegistry(r) ==
    [r EXCEPT !.services = << >>, !.listeners = << >>, !.allocatedPorts = {},
              !.events = [i \in 1..Cardinality(DOMAIN r.listeners) |->
                            LET ks == CHOOSE q \in Perms(DOMAIN r.listeners) : TRUE
                            IN  Event("stop", ks[i], r.listeners[ks[i]].target.Subdomain, 0)]]

(***************************************************************************)
(* Registry specification: any sequence of Update, RemoveService, Close.   *)
(***************************************************************************)
Install(r, op) ==
    /\ services' = r.services
    /\ listeners' = r.listeners
    /\ allocatedPorts' = r.allocatedPorts
    /\ events' = r.events
    /\ lastOp' = op

Agents == {1, 2}

InitRegistry ==
    /\ services = << >>
    /\ listeners = << >>
    /\ allocatedPorts = {}
    /\ events = << >>
    /\ lastOp = [op |-> "New", D |-> << >>, sub |-> ""]

InitAgents(deployed) ==
    /\ active = deployed
    /\ pc = [a \in Agents |-> "start"]
    /\ conn = [a \in Agents |-> "nil"]
    /\ link = [a \in Agents |-> "down"]
    /\ wire = [a \in Agents |-> << >>]
    /\ lastServices = [a \in Agents |-> << >>]
    /\ retry = [a \in Agents |-> << >>]
    /\ hb = [a \in Agents |-> FALSE]
    /\ lastSend = [a \in Agents |-> "none"]
    /\ resent = [a \in Agents |-> FALSE]

\* a component that is not part of the specification: nothing of it exists
Off == [on |-> FALSE]

InitOff(vs) ==
    /\ ("peers" \in vs => peers = Off)
    /\ ("reconn" \in vs => reconn = Off)
    /\ ("udp" \in vs => udp = Off)
    /\ ("tcp" \in vs => tcp = Off)
    /\ ("disc" \in vs => disc = Off)
    /\ ("hap" \in vs => hap = Off)
    /\ ("ctl" \in vs => ctl = Off)
    /\ ("lis" \in vs => lis = Off)
    /\ ("snd" \in vs => snd = Off)
    /\ ("chn" \in vs => chn = Off)
    /\ ("rec" \in vs => rec = Off)
    /\ ("dgm" \in vs => dgm = Off)
    /\ ("fwd" \in vs => fwd = Off)
    /\ ("ord" \in vs => ord = Off)
    /\ ("lck" \in vs => lck = Off)

ExtNames == {"peers", "reconn", "udp", "tcp", "disc", "hap",
             "ctl", "lis", "snd", "chn", "rec", "dgm", "fwd", "ord", "lck"}

Init == InitRegistry /\ InitAgents({}) /\ InitOff(ExtNames)

Update ==
    /\ \E D \in DesiredStates, busy \in ExternalBusy :
         \E rmOrder \in Perms(DOMAIN services), addOrder \in Perms(DOMAIN NewServices(D)) :
           Install(UpdateRegistry(Registry, D, rmOrder, addOrder, busy),
                   [op |-> "Update", D |-> D, sub |-> ""])
    /\ UNCHANGED agentVars
    /\ UNCHANGED extVars

RemoveService ==
    /\ \E subdomain \in Subdomains :
           Install(removeServiceLocked(Registry, subdomain),
                   [op |-> "RemoveService", D |-> << >>, sub |-> subdomain])
    /\ UNCHANGED agentVars
    /\ UNCHANGED extVars

Close ==
    /\ Install(CloseRegistry(Registry), [op |-> "Close", D |-> << >>, sub |-> ""])
    /\ UNCHANGED agentVars
    /\ UNCHANGED extVars

Next == Update \/ RemoveService \/ Close

vars == << services, listeners, allocatedPorts, events, lastOp,
           active, pc, conn, link, wire, lastServices, retry, hb, lastSend, resent,
           peers, reconn, udp, tcp, disc, hap,
           ctl, lis, snd, chn, rec, dgm, fwd, ord, lck >>

Spec == Init /\ [][Next]_vars

(***************************************************************************)
(* Agent (ServerClient.Run, heartbeat, Reconnect) and the server's         *)
(* connection handler.                                                     *)
(***************************************************************************)
SvcA == ExposedService("a", "10.0.0.42", << PortMapping(80, "tcp") >>)
SvcB == ExposedService("b", "10.0.0.43", << PortMapping(80, "tcp") >>)

\* the snapshots discovery hands to the agent's Run loop
Snapshots(a) ==
    IF a = 1 THEN { << >>, << SvcA >>, << SvcA, SvcB >> }
    ELSE { << SvcB >> }

UpdateMsg(S) == [type |-> "service_update", services |-> S]
HeartbeatMsg == [type |-> "heartbeat", services |-> << >>]

\* Connection.Send returns nil: there is a connection and its write succeeds
SendOk(a) == conn[a] = "open" /\ link[a] = "up"

\* Run: the initial Connect; on failure Run goes into Reconnect
AgentConnect ==
    /\ \E a \in active :
         /\ pc[a] = "start"
         /\ \/ /\ conn' = [conn EXCEPT ![a] = "open"]
               /\ link' = [link EXCEPT ![a] = "up"]
               /\ hb' = [hb EXCEPT ![a] = TRUE]
               /\ pc' = [pc EXCEPT ![a] = "idle"]
            \/ /\ pc' = [pc EXCEPT ![a] = "reconnect_initial"]
               /\ UNCHANGED << conn, link, hb >>
    /\ UNCHANGED << active, wire, lastServices, retry, lastSend, resent >>
    /\ UNCHANGED regVars
    /\ UNCHANGED extVars

\* Run: a snapshot arrives on onServicesChange and SendUpdate is called; on
\* an error Run calls Reconnect, which first closes the connection
AgentSendUpdate ==
    /\ \E a \in active : \E S \in Snapshots(a) :
         /\ pc[a] = "idle"
         /\ Len(wire[a]) < MaxWire
         /\ lastServices' = [lastServices EXCEPT ![a] = S]
         /\ resent' = [resent EXCEPT ![a] = FALSE]
         /\ IF SendOk(a)
            THEN /\ wire' = [wire EXCEPT ![a] = Append(@, UpdateMsg(S))]
                 /\ lastSend' = [lastSend EXCEPT ![a] = "ok"]
                 /\ UNCHANGED << pc, conn, retry >>
            ELSE /\ lastSend' = [lastSend EXCEPT ![a] = "update_failed"]
                 /\ pc' = [pc EXCEPT ![a] = "reconnect"]
                 /\ conn' = [conn EXCEPT ![a] = "nil"]
                 /\ retry' = [retry EXCEPT ![a] = S]
                 /\ UNCHANGED wire
    /\ UNCHANGED << active, link, hb >>
    /\ UNCHANGED regVars
    /\ UNCHANGED extVars

\* Reconnect: the connection attempt that succeeds (a failed attempt only
\* waits); the heartbeat is restarted and a non-empty lastServices is resent
AgentReconnect ==
    /\ \E a \in active :
         /\ pc[a] \in {"reconnect", "reconnect_initial"}
         /\ conn' = [conn EXCEPT ![a] = "open"]
         /\ link' = [link EXCEPT ![a] = "up"]
         /\ hb' = [hb EXCEPT ![a] = TRUE]
         /\ IF Len(lastServices[a]) > 0
            THEN /\ wire' = [wire EXCEPT ![a] = << UpdateMsg(lastServices[a]) >>]
                 /\ lastSend' = [lastSend EXCEPT ![a] = "ok"]
            ELSE /\ wire' = [wire EXCEPT ![a] = << >>]
                 /\ UNCHANGED lastSend
         /\ pc' = [pc EXCEPT ![a] = IF pc[a] = "reconnect" THEN "retry" ELSE "idle"]
    /\ UNCHANGED << active, lastServices, retry, resent >>
    /\ UNCHANGED regVars
    /\ UNCHANGED extVars

\* Run: SendUpdate(services) once more after Reconnect returned nil; an
\* error is logged and Run goes back to its select
AgentRetry ==
    /\ \E a \in active :
         /\ pc[a] = "retry"
         /\ Len(wire[a]) < MaxWire
         /\ lastServices' = [lastServices EXCEPT ![a] = retry[a]]
         /\ resent' = [resent EXCEPT ![a] = SendOk(a)]
         /\ IF SendOk(a)
            THEN /\ wire' = [wire EXCEPT ![a] = Append(@, UpdateMsg(retry[a]))]
                 /\ lastSend' = [lastSend EXCEPT ![a] = "ok"]
            ELSE /\ lastSend' = [lastSend EXCEPT ![a] = "update_failed"]
                 /\ UNCHANGED wire
         /\ pc' = [pc EXCEPT ![a] = "idle"]
         /\ retry' = [retry EXCEPT ![a] = << >>]
    /\ UNCHANGED << active, conn, link, hb >>
    /\ UNCHANGED regVars
    /\ UNCHANGED extVars

\* the heartbeat goroutine: a tick calls SendHeartbeat; an error is logged
AgentHeartbeat ==
    /\ \E a \in active :
         /\ hb[a]
         /\ Len(wire[a]) < MaxWire
         /\ IF SendOk(a)
            THEN /\ wire' = [wire EXCEPT ![a] = Append(@, HeartbeatMsg)]
                 /\ lastSend' = [lastSend EXCEPT ![a] = "ok"]
            ELSE /\ lastSend' = [lastSend EXCEPT ![a] = "heartbeat_failed"]
                 /\ UNCHANGED wire
    /\ UNCHANGED << active, pc, conn, link, lastServices, retry, hb, resent >>
    /\ UNCHANGED regVars
    /\ UNCHANGED extVars

\* the network drops the connection: what is in flight is lost, the handler's
\* receive fails and the handler returns; the registry is left as it is
LinkBreak ==
    /\ \E a \in active :
         /\ conn[a] = "open"
         /\ link[a] = "up"
         /\ link' = [link EXCEPT ![a] = "down"]
         /\ wire' = [wire EXCEPT ![a] = << >>]
         /\ resent' = [resent EXCEPT ![a] = FALSE]
    /\ UNCHANGED << active, pc, conn, lastServices, retry, hb, lastSend >>
    /\ UNCHANGED regVars
    /\ UNCHANGED extVars

\* handleAgentConnection: receive the next message and dispatch on its type
\* (no other process holds a port of the host in the agent specifications)
HandleMessage ==
    /\ \E a \in active :
         /\ wire[a] # << >>
         /\ wire' = [wire EXCEPT ![a] = Tail(@)]
         /\ LET msg == Head(wire[a])
            IN  IF msg.type = "service_update"
                THEN \E rmOrder \in Perms(DOMAIN services),
                        addOrder \in Perms(DOMAIN NewServices(msg.services)) :
                       Install(UpdateRegistry(Registry, msg.services, rmOrder, addOrder, {}),
                               [op |-> "Update", D |-> msg.services, sub |-> ""])
                ELSE UNCHANGED regVars
    /\ UNCHANGED << active, pc, conn, link, lastServices, retry, hb, lastSend, resent >>
    /\ UNCHANGED extVars

\* one agent on an unreliable network
NextAgent ==
    \/ AgentConnect \/ AgentSendUpdate \/ AgentReconnect \/ AgentRetry
    \/ AgentHeartbeat \/ LinkBreak \/ HandleMessage

InitAgent == InitRegistry /\ InitAgents({1}) /\ InitOff(ExtNames)

SpecAgent == InitAgent /\ [][NextAgent]_vars

\* two agents connected to the same server
NextTwoAgents == AgentConnect \/ AgentSendUpdate \/ AgentReconnect \/ HandleMessage

InitTwoAgents == InitRegistry /\ InitAgents(Agents) /\ InitOff(ExtNames)

SpecTwoAgents == InitTwoAgents /\ [][NextTwoAgents]_vars

(***************************************************************************)
(* Reading the event history of a registry call.                           *)
(***************************************************************************)
EventIdx(ev, kind) == { i \in 1..Len(ev) : ev[i].e = kind }

StoppedKeys(ev) == { ev[i].key : i \in EventIdx(ev, "stop") }

StartedKeysOf(ev, sub) == { ev[i].key : i \in { j \in EventIdx(ev, "start") : ev[j].sub = sub } }

AllocIdxOf(ev, sub) == { i \in EventIdx(ev, "alloc") : ev[i].sub = sub }

\* listeners started for a subdomain
OwnedBy(ls, sub) == { k \in DOMAIN ls : ls[k].target.Subdomain = sub }

\* the allocation set after the first n events of a call that began with alloc0
RECURSIVE AllocAfter(_, _, _)
AllocAfter(alloc0, ev, n) ==
    IF n = 0 THEN alloc0
    ELSE LET before == AllocAfter(alloc0, ev, n - 1)
             x == ev[n]
         IN  CASE x.e = "alloc" /\ x.res # 0 -> before \cup { << x.res, x.key[2] >> }
               [] x.e = "startfail"          -> before \ { x.key }
               [] x.e = "stop"               -> before \ { x.key }
               [] OTHER                      -> before

\* the keys of the running listeners after the first n events of a call
RECURSIVE KeysAfter(_, _, _)
KeysAfter(keys0, ev, n) ==
    IF n = 0 THEN keys0
    ELSE LET before == KeysAfter(keys0, ev, n - 1)
             x == ev[n]
         IN  CASE x.e = "start" -> before \cup { x.key }
               [] x.e = "stop"  -> before \ { x.key }
               [] OTHER         -> before

SubdomainsOf(D) == { D[i].Subdomain : i \in 1..Len(D) }

\* the step is a call of the registry: events' is the history of this step
RegistryCall == regVars' # regVars

\* the step is a call of Update
UpdateCall == RegistryCall /\ lastOp'.op = "Update"

(***************************************************************************)
(* C1.  Every listener in `listeners` was started for a service that is    *)
(* in `services`, and every listener of a service that stays registered    *)
(* unchanged keeps its entry in `listeners` and its allocation, also after *)
(* a port conflict remapped a mapping into the dynamic range.              *)
(***************************************************************************)
ListenersOwned ==
    \A k \in DOMAIN listeners : listeners[k].target.Subdomain \in DOMAIN services

ListenersKept ==
    \A k \in DOMAIN listeners :
        LET sub == listeners[k].target.Subdomain
        IN  ( /\ sub \in DOMAIN services
              /\ listeners[k].target = services[sub]
              /\ sub \in DOMAIN services'
              /\ services'[sub] = services[sub] )
            => /\ k \in DOMAIN listeners'
               /\ listeners'[k] = listeners[k]
               /\ k \in allocatedPorts'

C1_ListenersMatchServices == [][ListenersOwned' /\ ListenersKept]_vars

(***************************************************************************)
(* C2.  Update(D) stops every listener of a registered service absent from *)
(* D, attempts every mapping of every subdomain new in D, and neither      *)
(* stops nor starts a listener of a service that is registered and         *)
(* structurally unchanged in D.                                            *)
(***************************************************************************)
UpdateDiffStep ==
    UpdateCall =>
      LET new == NewServices(lastOp'.D)
      IN  /\ \A sub \in DOMAIN services \ DOMAIN new :
                OwnedBy(listeners, sub) \subseteq StoppedKeys(events')
          /\ \A sub \in DOMAIN new \ DOMAIN services :
                Cardinality(AllocIdxOf(events', sub)) = Len(new[sub].Ports)
          /\ \A sub \in DOMAIN services \cap DOMAIN new :
                servicesEqual(services[sub], new[sub]) =>
                  /\ OwnedBy(listeners, sub) \cap StoppedKeys(events') = {}
                  /\ StartedKeysOf(events', sub) = {}

C2_UpdateTouchesOnlyTheDifference == [][UpdateDiffStep]_vars

(***************************************************************************)
(* C3.  After Update(D) the registered subdomains are exactly the          *)
(* subdomains occurring in D, whatever was registered before and whether   *)
(* or not a mapping failed to allocate or to start.                        *)
(***************************************************************************)
C3_RegisteredIsDesired ==
    lastOp.op = "Update" => DOMAIN services = SubdomainsOf(lastOp.D)

\* an Update that removed a service absent from D while a mapping of D failed
C3_Witness ==
    /\ lastOp.op = "Update"
    /\ \E i \in EventIdx(events, "stop") : events[i].sub \notin SubdomainsOf(lastOp.D)
    /\ \/ EventIdx(events, "startfail") # {}
       \/ \E i \in EventIdx(events, "alloc") : events[i].res = 0
    /\ DOMAIN services = SubdomainsOf(lastOp.D)

(***************************************************************************)
(* C6.  Between registry calls, a (port, protocol) key is allocated iff a  *)
(* listener is stored under that key.                                      *)
(***************************************************************************)
C6_AllocatedIffListener == allocatedPorts = DOMAIN listeners

\* a listener sits on a remapped port and a listener start has just failed
C6_Witness ==
    /\ EventIdx(events, "startfail") # {}
    /\ \E k \in DOMAIN listeners :
          \A i \in 1..Len(listeners[k].target.Ports) : listeners[k].target.Ports[i].Port # k[1]
    /\ allocatedPorts = DOMAIN listeners

(***************************************************************************)
(* C7.  An allocation returns the requested port when it is free, else the *)
(* lowest free port of the protocol in the range, else an error that       *)
(* changes no allocation; every mapping of an added service is attempted,  *)
(* also after an earlier mapping of it failed.                             *)
(***************************************************************************)
AllocationStep ==
    RegistryCall =>
    /\ \A i \in EventIdx(events', "alloc") :
          LET pre == AllocAfter(allocatedPorts, events', i - 1)
              req == events'[i].key
              free == { p \in PortRangeStart..PortRangeEnd : << p, req[2] >> \notin pre }
          IN  /\ req \notin pre => events'[i].res = req[1]
              /\ (req \in pre /\ free # {}) =>
                     /\ events'[i].res \in free
                     /\ \A p \in free : events'[i].res <= p
              /\ (req \in pre /\ free = {}) => events'[i].res = 0
    /\ AllocAfter(allocatedPorts, events', Len(events')) = allocatedPorts'
    /\ \A sub \in { events'[i].sub : i \in EventIdx(events', "alloc") } :
          /\ sub \in DOMAIN services'
          /\ Cardinality(AllocIdxOf(events', sub)) = Len(services'[sub].Ports)

C7_AllocationPolicy == [][AllocationStep]_vars

\* the range was exhausted for the first mapping of a service and its second
\* mapping was attempted all the same
C7_Witness ==
    \E i, j \in EventIdx(events, "alloc") :
        /\ i < j
        /\ events[i].sub = events[j].sub
        /\ events[i].res = 0

(***************************************************************************)
(* C9.  Applying the same desired state twice in a row: the second Update  *)
(* stops and starts nothing and changes nothing.                           *)
(***************************************************************************)
SecondUpdateStep ==
    (RegistryCall /\ lastOp.op = "Update" /\ lastOp' = lastOp) =>
        /\ events' = << >>
        /\ services' = services
        /\ listeners' = listeners
        /\ allocatedPorts' = allocatedPorts

C9_UpdateIdempotent == [][SecondUpdateStep]_vars

\* an Update of two services that found nothing to stop and nothing to start
C9_Witness ==
    /\ lastOp.op = "Update"
    /\ Cardinality(SubdomainsOf(lastOp.D)) = 2
    /\ events = << >>
    /\ DOMAIN listeners # {}

(***************************************************************************)
(* C10.  A tcp+udp mapping on port p takes p for tcp and for udp: a later  *)
(* tcp or udp mapping that requests p is not given p; a tcp mapping on p   *)
(* does not keep a udp mapping from getting p.                             *)
(***************************************************************************)
ProtocolNamespacesStep ==
    RegistryCall =>
    \A i \in EventIdx(events', "alloc") :
        LET keys == KeysAfter(DOMAIN listeners, events', i - 1)
            p == events'[i].key[1]
            proto == events'[i].key[2]
        IN  /\ (proto \in {"tcp", "udp"} /\ << p, "tcp+udp" >> \in keys) => events'[i].res # p
            /\ (proto = "udp" /\ << p, "udp" >> \notin keys /\ << p, "tcp+udp" >> \notin keys)
                  => events'[i].res = p

C10_TcpUdpTakesBothNamespaces == [][ProtocolNamespacesStep]_vars

(***************************************************************************)
(* C4.  After a disconnect and a successful reconnect, once the set the    *)
(* agent sent again has been processed, the registered services are the    *)
(* agent's latest set, every listener belongs to a service of that set and *)
(* every service of the set has a listener.                                *)
(***************************************************************************)
RegistryMatches(S) ==
    LET new == NewServices(S)
    IN  /\ DOMAIN services = DOMAIN new
        /\ \A s \in DOMAIN new : services[s] = new[s]
        /\ \A k \in DOMAIN listeners :
              /\ listeners[k].target.Subdomain \in DOMAIN new
              /\ listeners[k].target = new[listeners[k].target.Subdomain]
        /\ \A s \in DOMAIN new : OwnedBy(listeners, s) # {}

C4_ReconnectConverges ==
    \A a \in active :
        (resent[a] /\ pc[a] = "idle" /\ SendOk(a) /\ wire[a] = << >>)
            => RegistryMatches(lastServices[a])

(***************************************************************************)
(* C5.  Whenever a send on the agent connection fails, of an update or of  *)
(* a heartbeat, the agent closes the connection and reconnects, and after  *)
(* the reconnect its last known set, empty or not, is sent again.          *)
(***************************************************************************)
Reconnecting(p) == p \in {"reconnect", "reconnect_initial"}

SendFailureStep ==
    \A a \in active :
        /\ ( /\ lastSend'[a] \in {"update_failed", "heartbeat_failed"}
             /\ (lastSend'[a] # lastSend[a] \/ pc'[a] # pc[a])
             /\ ~(Reconnecting(pc[a]) /\ ~Reconnecting(pc'[a])) )
           => (conn'[a] = "nil" /\ Reconnecting(pc'[a]))
        /\ (pc[a] = "retry" /\ pc'[a] = "idle" /\ lastSend'[a] = "ok")
           => ( /\ wire'[a] # << >>
                /\ wire'[a][Len(wire'[a])] = UpdateMsg(lastServices'[a]) )

C5_SendFailureReconnects == [][SendFailureStep]_vars

(***************************************************************************)
(* C8.  Two services request the same external (port, protocol).           *)
(***************************************************************************)
SameRequest(m1, m2) == m1.Port = m2.Port /\ m1.Protocol = m2.Protocol

\* the lowest free port of the range is where a conflicting mapping lands
RemappedTo(ls, sub, protocol, port) ==
    /\ port # 0
    /\ << port, protocol >> \in OwnedBy(ls, sub)

\* the claim as stated: a service already holding the requested port keeps
\* it when another service that requests it is pushed, in the same or in a
\* later update, and the later one is remapped; within one update the service
\* that comes first in the list holds the requested port
FirstPushedWinsStep ==
    UpdateCall =>
      LET D == lastOp'.D
          new == NewServices(D)
      IN  /\ \A s1 \in DOMAIN services, s2 \in DOMAIN new \ DOMAIN services :
                \A i \in 1..Len(services[s1].Ports), j \in 1..Len(new[s2].Ports) :
                    LET m == services[s1].Ports[i]
                        key == portKey(m.Port, m.Protocol)
                    IN  ( /\ SameRequest(m, new[s2].Ports[j])
                          /\ key \in OwnedBy(listeners, s1) )
                        => /\ s1 \in DOMAIN services'
                           /\ key \in OwnedBy(listeners', s1)
                           /\ s2 \in DOMAIN services'
                           /\ RemappedTo(listeners', s2, m.Protocol,
                                         FirstFreeInRange(allocatedPorts, m.Protocol))
          /\ \A x, y \in 1..Len(D) :
                ( /\ x < y
                  /\ D[x].Subdomain # D[y].Subdomain
                  /\ services = << >> /\ listeners = << >>
                  /\ D[x] = new[D[x].Subdomain] /\ D[y] = new[D[y].Subdomain]
                  /\ SameRequest(D[x].Ports[1], D[y].Ports[1]) )
                => /\ portKey(D[x].Ports[1].Port, D[x].Ports[1].Protocol)
                        \in OwnedBy(listeners', D[x].Subdomain)
                   /\ OwnedBy(listeners', D[y].Subdomain) # {}

C8_FirstPushedWins == [][FirstPushedWinsStep]_vars

\* as amended: an update replaces the whole desired state, so a later push
\* keeps an earlier service only if it lists it; within one update both
\* services are registered, the one the registry adds first and starts on
\* the requested port keeps it, and the one added later gets the lowest
\* free port of the range, or no port when the range is exhausted
ConflictInOneUpdateStep ==
    UpdateCall =>
      /\ DOMAIN services' = SubdomainsOf(lastOp'.D)
      /\ \A i, j \in EventIdx(events', "alloc") :
            ( /\ i < j
              /\ events'[i].key = events'[j].key
              /\ events'[i].sub # events'[j].sub
              /\ events'[i].res = events'[i].key[1]
              /\ events'[i + 1].e = "start" )
            => LET pre == AllocAfter(allocatedPorts, events', j - 1)
                   proto == events'[j].key[2]
                   free == { p \in PortRangeStart..PortRangeEnd : << p, proto >> \notin pre }
               IN  /\ events'[j].res # events'[j].key[1]
                   /\ free # {} => (events'[j].res \in free /\ \A p \in free : events'[j].res <= p)
                   /\ free = {} => events'[j].res = 0
                   /\ { events'[i].sub, events'[j].sub } \subseteq DOMAIN services'

C8_ConflictInOneUpdate == [][ConflictInOneUpdateStep]_vars

\* one update registered two services on the same requested port: the first
\* listens on it, the second on the first port of the range
C8_Witness ==
    /\ lastOp.op = "Update"
    /\ \E i, j \in EventIdx(events, "alloc") :
          /\ i < j
          /\ events[i].key = events[j].key
          /\ events[i].sub # events[j].sub
          /\ events[i].res = events[i].key[1]
          /\ events[j].res = PortRangeStart
          /\ << events[i].res, events[i].key[2] >> \in OwnedBy(listeners, events[i].sub)
          /\ << events[j].res, events[j].key[2] >> \in OwnedBy(listeners, events[j].sub)

(***************************************************************************)
(* C11.  When a subdomain occurs more than once in the list of one update, *)
(* exactly one service is registered for it and it is the first entry of   *)
(* the list with that subdomain.                                           *)
(***************************************************************************)
FirstObserved(D, subdomain) ==
    D[CHOOSE i \in 1..Len(D) :
        /\ D[i].Subdomain = subdomain
        /\ \A j \in 1..(i - 1) : D[j].Subdomain # subdomain]

FirstObservedStep ==
    UpdateCall =>
        \A subdomain \in SubdomainsOf(lastOp'.D) :
            /\ subdomain \in DOMAIN services'
            /\ services'[subdomain] = FirstObserved(lastOp'.D, subdomain)
            /\ \A k \in DOMAIN listeners' :
                  listeners'[k].target.Subdomain = subdomain
                      => listeners'[k].target = FirstObserved(lastOp'.D, subdomain)

C11_FirstObservedIsKept == [][FirstObservedStep]_vars

(***************************************************************************)
(* Wire protocol (SendMessage, ReceiveMessage, Message.Validate) and the   *)
(* server's handler of one agent connection, for any peer that connects.   *)
(***************************************************************************)
\* most frames in flight on one connection
MaxInbox == 1

\* the largest declared length ReceiveMessage reads: 10 MiB
MaxMessageSize == 10 * 1024 * 1024

MessageTypes == {"service_update", "service_delete", "heartbeat"}

\* ValidateSubdomain, evaluated on the labels of the model: a DNS label of
\* lower-case letters, digits and inner hyphens
ValidateSubdomain(subdomain) == subdomain \in {"a", "b", "c"}

ValidatePortMapping(pm) ==
    /\ pm.Port >= 1 /\ pm.Port <= 65535
    /\ pm.Protocol \in {"tcp", "udp", "tcp+udp"}

ValidateService(svc) ==
    /\ svc.Name # ""
    /\ svc.Namespace # ""
    /\ ValidateSubdomain(svc.Subdomain)
    /\ Len(svc.Ports) > 0
    /\ \A i \in 1..Len(svc.Ports) : ValidatePortMapping(svc.Ports[i])
    /\ svc.TargetIP # ""

\* Message.Validate
ValidateMessage(m) ==
    /\ m.type \in MessageTypes
    /\ m.type \in {"service_update", "service_delete"}
          => \A i \in 1..Len(m.services) : ValidateService(m.services[i])

\* a service that fails validation: its target IP is empty
SvcNoTarget == ExposedService("b", "", << PortMapping(80, "tcp") >>)

Message(type, svcs) == [type |-> type, services |-> svcs]

\* the messages a peer hands to SendMessage
PeerMessages ==
    { Message("service_update", << SvcA >>),
      Message("service_update", << SvcA, SvcB >>),
      Message("service_update", << SvcNoTarget >>),
      Message("service_delete", << SvcB >>),
      Message("heartbeat", << >>),
      Message("heartbeat", << SvcNoTarget >>),
      Message("status", << >>) }

\* json.Marshal of a Message: an object with the member "type" and, when the
\* list is not empty (omitempty), the member "services"
Marshal(m) ==
    IF Len(m.services) = 0
    THEN [kind |-> "object", members |-> [n \in {"type"} |-> m.type]]
    ELSE [kind |-> "object",
          members |-> [n \in {"type", "services"} |->
                          IF n = "type" THEN m.type ELSE m.services]]

\* json.Unmarshal into a Message: members that are missing keep the zero value
Unmarshal(data) ==
    Message(IF "type" \in DOMAIN data.members THEN data.members["type"] ELSE "",
            IF "services" \in DOMAIN data.members THEN data.members["services"] ELSE << >>)

NotJSON == [kind |-> "garbage", members |-> << >>]
NoBytes == [kind |-> "empty", members |-> << >>]

\* len(data) of the encoded object, in bytes
DataLen(data) ==
    IF data.kind = "empty" THEN 0
    ELSE IF data.kind = "garbage" THEN 7
    ELSE 11 + (IF "services" \in DOMAIN data.members
               THEN 14 + 150 * Len(data.members["services"]) ELSE 0)

\* a frame on the wire: the 4-byte length prefix (big endian, uint32, never
\* negative), what the payload bytes hold, and how many payload bytes arrive
\* before the stream ends
Frame(length, data, avail) == [length |-> length, data |-> data, avail |-> avail]

\* a declared length far beyond the limit
HugeLength == 2147483647

\* the frames a peer can write without SendMessage: payloads that are not
\* JSON, an empty payload, JSON padded with white space up to the size limit,
\* declared lengths beyond the limit, and a payload cut short
RawFrames ==
    { Frame(DataLen(NotJSON), NotJSON, DataLen(NotJSON)),
      Frame(0, NoBytes, 0),
      Frame(MaxMessageSize, Marshal(Message("heartbeat", << >>)), MaxMessageSize),
      Frame(MaxMessageSize + 1, Marshal(Message("heartbeat", << >>)), MaxMessageSize + 1),
      Frame(HugeLength, NotJSON, 7),
      Frame(DataLen(Marshal(Message("service_update", << SvcA >>))),
            Marshal(Message("service_update", << SvcA >>)), 20),
      Frame(DataLen(Marshal(Message("status", << >>))),
            Marshal(Message("status", << >>)), DataLen(Marshal(Message("status", << >>)))),
      Frame(DataLen(Marshal(Message("service_update", << SvcNoTarget >>))),
            Marshal(Message("service_update", << SvcNoTarget >>)),
            DataLen(Marshal(Message("service_update", << SvcNoTarget >>)))) }

NoMessage == Message("", << >>)

\* SendMessage: the frame written, or nothing when validation fails
SendMessage(m) ==
    IF ~ValidateMessage(m)
    THEN [err |-> "message validation failed", frames |-> << >>]
    ELSE LET data == Marshal(m)
         IN  [err |-> "", frames |-> << Frame(DataLen(data), data, DataLen(data)) >>]

\* variant: a frame of exactly the limit is rejected as well
ReceiveMessage_LimitExcluded(inbox) ==
    IF inbox = << >>
    THEN [err |-> "failed to read message length", msg |-> NoMessage, read |-> 0]
    ELSE LET f == Head(inbox)
         IN  IF f.length >= MaxMessageSize
             THEN [err |-> "message too large", msg |-> NoMessage, read |-> 0]
             ELSE IF f.avail < f.length
             THEN [err |-> "failed to read message data", msg |-> NoMessage, read |-> f.avail]
             ELSE IF f.data.kind # "object"
             THEN [err |-> "failed to unmarshal message", msg |-> NoMessage, read |-> f.length]
             ELSE IF ~ValidateMessage(Unmarshal(f.data))
             THEN [err |-> "received invalid message", msg |-> NoMessage, read |-> f.length]
             ELSE [err |-> "", msg |-> Unmarshal(f.data), read |-> f.length]

\* ReceiveMessage on the bytes that are next in the stream (an empty inbox:
\* the stream has ended); read counts the payload bytes taken off the stream
ReceiveMessage(inbox) ==
    IF inbox = << >>
    THEN [err |-> "failed to read message length", msg |-> NoMessage, read |-> 0]
    ELSE LET f == Head(inbox)
         IN  IF f.length > MaxMessageSize
             THEN [err |-> "message too large", msg |-> NoMessage, read |-> 0]
             ELSE IF f.avail < f.length
             THEN [err |-> "failed to read message data", msg |-> NoMessage, read |-> f.avail]
             ELSE IF f.data.kind # "object"
             THEN [err |-> "failed to unmarshal message", msg |-> NoMessage, read |-> f.length]
             ELSE IF ~ValidateMessage(Unmarshal(f.data))
             THEN [err |-> "received invalid message", msg |-> NoMessage, read |-> f.length]
             ELSE [err |-> "", msg |-> Unmarshal(f.data), read |-> f.length]

\* the reads of ReceiveMessage return: a whole frame has arrived, or the
\* length prefix is over the limit, or the peer has closed the stream
CanReceive(p) ==
    \/ p.inbox = << >> /\ p.eof
    \/ /\ p.inbox # << >>
       /\ \/ Head(p.inbox).length > MaxMessageSize
          \/ Head(p.inbox).avail >= Head(p.inbox).length
          \/ p.eof

\* variant: a receive error tears the registry down
OnReceiveError_ClosesRegistry(r) == CloseRegistry(r)

\* handleAgentConnection on a receive error: log and return
OnReceiveError(r) == r

RECURSIVE RemoveEach(_, _, _)
RemoveEach(r, svcs, i) ==
    IF i > Len(svcs) THEN r
    ELSE RemoveEach(removeServiceLocked(r, svcs[i].Subdomain), svcs, i + 1)

\* the switch of handleAgentConnection; log: what the handler logged
Dispatch(r, msg, rmOrder, addOrder) ==
    IF msg.type = "service_update"
    THEN [reg |-> UpdateRegistry(r, msg.services, rmOrder, addOrder, {}), log |-> "update"]
    ELSE IF msg.type = "service_delete"
    THEN [reg |-> RemoveEach(r, msg.services, 1), log |-> "delete"]
    ELSE IF msg.type = "heartbeat"
    THEN [reg |-> r, log |-> "heartbeat"]
    ELSE [reg |-> r, log |-> "unknown message type"]

NoReceive == [c |-> 0, err |-> "", read |-> 0, log |-> "", msg |-> NoMessage]
NoSend == [c |-> 0, msg |-> NoMessage, err |-> "", wrote |-> << >>]

NewConn == [handler |-> "none", sock |-> "none", inbox |-> << >>, eof |-> FALSE]

\* what the peer on connection c sends: the second peer only sends
\* heartbeats
MessagesOf(c) == IF c = 1 THEN PeerMessages ELSE { Message("heartbeat", << >>) }
RawFramesOf(c) == IF c = 1 THEN RawFrames ELSE {}

InitPeers ==
    peers = [on |-> TRUE, c |-> [c \in Agents |-> NewConn],
             recv |-> NoReceive, sent |-> NoSend]

PeerUnchanged == UNCHANGED << agentVars, reconn, udp, tcp, disc, hap, moreVars >>

\* main: Accept, then go handleAgentConnection
AcceptConn ==
    /\ \E c \in Agents :
         /\ peers.c[c].handler = "none"
         /\ peers' = [peers EXCEPT !.c[c].handler = "running", !.c[c].sock = "open"]
    /\ UNCHANGED regVars
    /\ PeerUnchanged

\* the peer calls SendMessage on its end of the connection
PeerSend ==
    /\ \E c \in Agents : \E m \in MessagesOf(c) :
         /\ peers.c[c].sock = "open"
         /\ ~peers.c[c].eof
         /\ Len(peers.c[c].inbox) < MaxInbox
         /\ LET res == SendMessage(m)
            IN  peers' = [peers EXCEPT !.c[c].inbox = @ \o res.frames,
                                       !.sent = [c |-> c, msg |-> m, err |-> res.err,
                                                 wrote |-> res.frames]]
    /\ UNCHANGED regVars
    /\ PeerUnchanged

\* the peer writes bytes of its own making
PeerWriteRaw ==
    /\ \E c \in Agents : \E f \in RawFramesOf(c) :
         /\ peers.c[c].sock = "open"
         /\ ~peers.c[c].eof
         /\ Len(peers.c[c].inbox) < MaxInbox
         /\ peers' = [peers EXCEPT !.c[c].inbox = Append(@, f)]
    /\ UNCHANGED regVars
    /\ PeerUnchanged

\* the peer disconnects
PeerClose ==
    /\ \E c \in Agents :
         /\ peers.c[c].sock = "open"
         /\ ~peers.c[c].eof
         /\ peers' = [peers EXCEPT !.c[c].eof = TRUE]
    /\ UNCHANGED regVars
    /\ PeerUnchanged

\* handleAgentConnection: one iteration of its loop
handleAgentConnection ==
    /\ \E c \in Agents :
         /\ peers.c[c].handler = "running"
         /\ CanReceive(peers.c[c])
         /\ LET res == ReceiveMessage(peers.c[c].inbox)
            IN  IF res.err # ""
                THEN /\ peers' = [peers EXCEPT !.c[c].handler = "done",
                                               !.c[c].sock = "closed",
                                               !.c[c].inbox = << >>,
                                               !.recv = [c |-> c, err |-> res.err, read |-> res.read,
                                                         log |-> "Failed to receive message",
                                                         msg |-> NoMessage]]
                     /\ Install(OnReceiveError(Registry),
                                [op |-> "ReceiveError", D |-> << >>, sub |-> ""])
                ELSE \E rmOrder \in Perms(DOMAIN services),
                        addOrder \in Perms(DOMAIN NewServices(res.msg.services)) :
                       LET d == Dispatch(Registry, res.msg, rmOrder, addOrder)
                       IN  /\ peers' = [peers EXCEPT !.c[c].inbox = Tail(@),
                                                     !.recv = [c |-> c, err |-> "", read |-> res.read,
                                                               log |-> d.log, msg |-> res.msg]]
                           /\ Install(d.reg, [op |-> d.log, D |-> res.msg.services, sub |-> ""])
    /\ PeerUnchanged

NextHandler == AcceptConn \/ PeerSend \/ PeerWriteRaw \/ PeerClose \/ handleAgentConnection

InitHandler ==
    InitRegistry /\ InitAgents({}) /\ InitOff(ExtNames \ {"peers"}) /\ InitPeers

SpecHandler == InitHandler /\ [][NextHandler]_vars

\* the handler of connection c takes this step: only the handler ends itself
\* or takes a frame off the stream
HandlerStep(c) ==
    /\ peers.c[c].handler = "running"
    /\ \/ peers'.c[c].handler = "done"
       \/ Len(peers'.c[c].inbox) < Len(peers.c[c].inbox)

RegistryUntouched ==
    /\ services' = services
    /\ listeners' = listeners
    /\ allocatedPorts' = allocatedPorts

\* a frame whose payload arrives whole, within the limit, and is a JSON object
WellFramed(f) ==
    /\ f.length <= MaxMessageSize
    /\ f.avail >= f.length
    /\ f.data.kind = "object"

(***************************************************************************)
(* C12.  A well-framed message of a type other than service_update,        *)
(* service_delete and heartbeat is logged by the handler, which goes on    *)
(* receiving on the same connection; the registry is unchanged.            *)
(***************************************************************************)
UnknownTypeStep ==
    \A c \in Agents :
        ( /\ HandlerStep(c)
          /\ peers.c[c].inbox # << >>
          /\ WellFramed(Head(peers.c[c].inbox))
          /\ Unmarshal(Head(peers.c[c].inbox).data).type \notin MessageTypes )
        => /\ peers'.c[c].handler = "running"
           /\ peers'.c[c].sock = "open"
           /\ peers'.recv.log = "unknown message type"
           /\ RegistryUntouched

C12_UnknownTypeLoggedAndContinued == [][UnknownTypeStep]_vars

(***************************************************************************)
(* C13.  Every message SendMessage writes and every message ReceiveMessage *)
(* returns has a valid type and only services that pass validation,        *)
(* whatever its type; SendMessage writes nothing for a message that fails  *)
(* validation; a received message that fails validation ends the           *)
(* connection.                                                             *)
(***************************************************************************)
EveryServiceValidates(m) ==
    /\ m.type \in MessageTypes
    /\ \A i \in 1..Len(m.services) : ValidateService(m.services[i])

ValidatedOnTheWireStep ==
    /\ (peers'.sent # peers.sent /\ peers'.sent.wrote # << >>)
          => EveryServiceValidates(peers'.sent.msg)
    /\ (peers'.sent # peers.sent /\ ~EveryServiceValidates(peers'.sent.msg))
          => (peers'.sent.wrote = << >> /\ peers'.sent.err # "")
    /\ \A c \in Agents :
          HandlerStep(c) =>
             /\ peers'.recv.err = "" => EveryServiceValidates(peers'.recv.msg)
             /\ ( /\ peers.c[c].inbox # << >>
                  /\ WellFramed(Head(peers.c[c].inbox))
                  /\ ~EveryServiceValidates(Unmarshal(Head(peers.c[c].inbox).data)) )
                => (peers'.c[c].handler = "done" /\ peers'.c[c].sock = "closed")

C13_OnlyValidMessagesOnTheWire == [][ValidatedOnTheWireStep]_vars

(***************************************************************************)
(* C14.  A frame that declares more than 10 MiB gives an error and no      *)
(* payload byte is read; a frame that declares 0 bytes gives an error and  *)
(* no message; a frame of exactly 10 MiB is not rejected for its size;     *)
(* every receive error ends the handler and closes the connection.         *)
(***************************************************************************)
TenMiB == 10 * (2^20)

FrameLimitsStep ==
    \A c \in Agents :
        HandlerStep(c) =>
            /\ peers'.recv.err # ""
                  => (peers'.c[c].handler = "done" /\ peers'.c[c].sock = "closed")
            /\ peers.c[c].inbox # << >> =>
                 LET f == Head(peers.c[c].inbox)
                 IN  /\ f.length > TenMiB
                          => (peers'.recv.err # "" /\ peers'.recv.read = 0)
                     /\ f.length = 0
                          => /\ peers'.recv.err # ""
                             /\ peers'.recv.msg = NoMessage
                             /\ RegistryUntouched
                     /\ f.length = TenMiB
                          => /\ peers'.recv.err # "message too large"
                             /\ (f.avail >= f.length /\ f.data.kind = "object"
                                   /\ ValidateMessage(Unmarshal(f.data)))
                                  => (peers'.recv.err = "" /\ peers'.recv.read = TenMiB)

C14_FrameLengthLimits == [][FrameLimitsStep]_vars

\* a frame of exactly 10 MiB was received and its message accepted
C14_Witness ==
    /\ peers.recv.c = 1
    /\ peers.recv.err = ""
    /\ peers.recv.read = TenMiB
    /\ peers.c[1].handler = "running"

(***************************************************************************)
(* C15.  A heartbeat and a receive error (the agent disconnects) leave     *)
(* services, listeners and allocations as they are; a receive error ends   *)
(* the handler of that connection and closes that connection only.         *)
(***************************************************************************)
HeartbeatOrDisconnectStep ==
    \A c \in Agents :
        HandlerStep(c) =>
            /\ (peers'.recv.err = "" /\ peers'.recv.msg.type = "heartbeat") => RegistryUntouched
            /\ peers'.recv.err # ""
                  => /\ RegistryUntouched
                     /\ peers'.c[c].handler = "done"
                     /\ peers'.c[c].sock = "closed"
                     /\ \A d \in Agents \ {c} : peers'.c[d] = peers.c[d]

C15_HeartbeatAndDisconnectKeepRegistry == [][HeartbeatOrDisconnectStep]_vars

\* services are exposed, the first connection has ended on a receive error
\* and the second one is still served
C15_Witness ==
    /\ DOMAIN services # {}
    /\ DOMAIN listeners # {}
    /\ peers.recv.c = 1
    /\ peers.recv.err = "failed to read message length"
    /\ peers.c[1].handler = "done"
    /\ peers.c[1].sock = "closed"
    /\ peers.c[2].handler = "running"
    /\ peers.c[2].sock = "open"

(***************************************************************************)
(* Connection.Reconnect: close, then wait and connect until an attempt     *)
(* succeeds.  Durations are in seconds.                                    *)
(***************************************************************************)
\* most connection attempts of one Reconnect call
MaxAttempts == 8
\* most Reconnect calls
MaxReconnects == 2

\* NewConnection
reconnectDelay == 1
maxReconnectDelay == 60

Min(x, y) == IF x < y THEN x ELSE y

\* variant: the delay doubles without a cap
NextDelay_Uncapped(delay) == delay * 2

\* Reconnect after a failed attempt: delay *= 2, capped at maxReconnectDelay
NextDelay(delay) ==
    IF delay * 2 > maxReconnectDelay THEN maxReconnectDelay ELSE delay * 2

\* conn: Connection.conn is set; delay: the local `delay` of the running
\* Reconnect call; waits (history): the waits of the running or last call,
\* one per attempt; done (history): the number of attempts of each call that
\* has returned
InitReconn ==
    reconn = [on |-> TRUE, conn |-> FALSE, phase |-> "idle", delay |-> 0,
              waits |-> << >>, done |-> << >>]

ReconnUnchanged == UNCHANGED << regVars, agentVars, peers, udp, tcp, disc, hap, moreVars >>

\* Reconnect is called (after a send error, or after the first Connect
\* failed): the connection is closed and delay starts at reconnectDelay
ReconnectCall ==
    /\ reconn.phase = "idle"
    /\ Len(reconn.done) < MaxReconnects
    /\ reconn' = [reconn EXCEPT !.conn = FALSE, !.phase = "waiting",
                                !.delay = reconnectDelay, !.waits = << >>]
    /\ ReconnUnchanged

\* time.After(delay) fires and Connect fails: back off and go round again
ReconnectAttemptFails ==
    /\ reconn.phase = "waiting"
    /\ Len(reconn.waits) + 1 < MaxAttempts
    /\ reconn' = [reconn EXCEPT !.waits = Append(@, reconn.delay),
                                !.delay = NextDelay(reconn.delay)]
    /\ ReconnUnchanged

\* time.After(delay) fires and Connect succeeds: Reconnect returns nil
ReconnectAttemptSucceeds ==
    /\ reconn.phase = "waiting"
    /\ reconn' = [reconn EXCEPT !.waits = Append(@, reconn.delay),
                                !.conn = TRUE, !.phase = "idle",
                                !.done = Append(@, Len(reconn.waits) + 1)]
    /\ ReconnUnchanged

NextReconnect == ReconnectCall \/ ReconnectAttemptFails \/ ReconnectAttemptSucceeds

InitReconnect ==
    InitRegistry /\ InitAgents({}) /\ InitOff(ExtNames \ {"reconn"}) /\ InitReconn

SpecReconnect == InitReconnect /\ [][NextReconnect]_vars

(***************************************************************************)
(* C16.  Within one Reconnect call the wait before the k-th attempt is     *)
(* min(2^(k-1), 60) seconds, never more than 60 s; a Reconnect that        *)
(* follows a successful establishment starts again at 1 s.                 *)
(***************************************************************************)
C16_BackoffSchedule ==
    /\ \A k \in 1..Len(reconn.waits) :
          /\ reconn.waits[k] = Min(2^(k - 1), 60)
          /\ reconn.waits[k] <= 60
    /\ reconn.phase = "waiting"
          => /\ reconn.delay = Min(2^Len(reconn.waits), 60)
             /\ (reconn.waits = << >> => reconn.delay = 1)

\* a second Reconnect, after one that succeeded late, has reached the cap
C16_Witness ==
    /\ Len(reconn.done) = 1
    /\ reconn.done[1] > 1
    /\ reconn.phase = "waiting"
    /\ Len(reconn.waits) = 7
    /\ reconn.waits[1] = 1
    /\ reconn.waits[7] = 60

(***************************************************************************)
(* Forwarder, UDP: the session map, the response pump of each session and  *)
(* the idle cleaner.  Time is counted in minutes.                          *)
(***************************************************************************)
\* the clock stops here
MaxTime == 7
\* most sessions (target sockets) ever created
MaxSessions == 2

\* sessions idle for longer than this are removed: 5 minutes
IdleTimeout == 5

\* the client addresses datagrams come from
Clients == {"X", "Y"}

Inactive(now, lastActive) == now - lastActive > IdleTimeout

\* variant: the session is deleted from the map and its socket left open
removeUDPSession_LeavesSocket(u, key) ==
    IF key \in DOMAIN u.sessions
    THEN [u EXCEPT !.sessions = Restrict(@, DOMAIN @ \ {key})]
    ELSE u

\* removeUDPSession: close the target socket of the session that is in the
\* map under the key, and delete the entry
removeUDPSession(u, key) ==
    IF key \in DOMAIN u.sessions
    THEN [u EXCEPT !.socks[u.sessions[key]] = "closed",
                   !.sessions = Restrict(@, DOMAIN @ \ {key})]
    ELSE u

\* variant: the cleaner deletes the idle sessions and leaves their sockets
cleanupUDPSessions_LeavesSocket(u) ==
    LET idle == { k \in DOMAIN u.sessions : Inactive(u.now, u.lastActive[u.sessions[k]]) }
    IN  [u EXCEPT !.sessions = Restrict(@, DOMAIN @ \ idle)]

\* one tick of cleanupUDPSessions: every session that is inactive at `now`
\* has its target socket closed and is deleted
cleanupUDPSessions(u) ==
    LET idle == { k \in DOMAIN u.sessions : Inactive(u.now, u.lastActive[u.sessions[k]]) }
    IN  [u EXCEPT !.socks = [id \in DOMAIN @ |->
                               IF id \in { u.sessions[k] : k \in idle } THEN "closed" ELSE @[id]],
                  !.sessions = Restrict(@, DOMAIN @ \ idle)]

\* sessions: client address -> session (its number); socks: session -> state
\* of its target socket; lastActive: session -> time; owner: session -> the
\* client address it was made for; pump: session -> state of its
\* forwardUDPResponses goroutine; call: client -> the session a running
\* ForwardUDP call holds between its lookup and its write (0: no call);
\* last (history): the step taken last
InitUDP ==
    udp = [on |-> TRUE, now |-> 0, sessions |-> << >>, socks |-> << >>,
           lastActive |-> << >>, owner |-> << >>, pump |-> << >>,
           call |-> [k \in Clients |-> 0],
           last |-> [op |-> "NewForwarder", key |-> "", res |-> ""]]

UDPUnchanged == UNCHANGED << regVars, agentVars, peers, reconn, tcp, disc, hap, moreVars >>

Step(u, op, key, res) == [u EXCEPT !.last = [op |-> op, key |-> key, res |-> res]]

\* a minute passes
Advance ==
    /\ udp.now < MaxTime
    /\ udp' = Step([udp EXCEPT !.now = @ + 1], "advance", "", "")
    /\ UDPUnchanged

\* ForwardUDP, under udpMu: look the session of the client address up, or
\* dial the target, store a new session and start its response pump
ForwardUDPLookup ==
    /\ \E key \in Clients :
         /\ udp.call[key] = 0
         /\ IF key \in DOMAIN udp.sessions
            THEN udp' = Step([udp EXCEPT !.call[key] = udp.sessions[key]], "lookup", key, "found")
            ELSE \/ udp' = Step(udp, "lookup", key, "failed to dial UDP target")
                 \/ /\ Cardinality(DOMAIN udp.socks) < MaxSessions
                    /\ LET id == Cardinality(DOMAIN udp.socks) + 1
                       IN  udp' = Step([udp EXCEPT !.sessions = (key :> id) @@ @,
                                                   !.socks = (id :> "open") @@ @,
                                                   !.lastActive = (id :> udp.now) @@ @,
                                                   !.owner = (id :> key) @@ @,
                                                   !.pump = (id :> "running") @@ @,
                                                   !.call[key] = id],
                                       "lookup", key, "created")
    /\ UDPUnchanged

\* ForwardUDP, after udpMu is released: set lastActive and write the
\* datagram to the session's target socket
ForwardUDPWrite ==
    /\ \E key \in Clients :
         /\ udp.call[key] # 0
         /\ LET id == udp.call[key]
            IN  udp' = Step([udp EXCEPT !.lastActive[id] = udp.now, !.call[key] = 0],
                            "write", key,
                            IF udp.socks[id] = "open" THEN "" ELSE "failed to write to target")
    /\ UDPUnchanged

\* forwardUDPResponses: the target answers, the pump notes the activity and
\* writes the answer to the client
PumpResponse ==
    /\ \E id \in DOMAIN udp.pump :
         /\ udp.pump[id] = "running"
         /\ udp.socks[id] = "open"
         /\ udp.lastActive[id] # udp.now
         /\ udp' = Step([udp EXCEPT !.lastActive[id] = udp.now], "response", udp.owner[id], "")
    /\ UDPUnchanged

\* forwardUDPResponses: the read deadline passes; an inactive session is
\* removed by its key and the pump returns
PumpTimeout ==
    /\ \E id \in DOMAIN udp.pump :
         /\ udp.pump[id] = "running"
         /\ udp.socks[id] = "open"
         /\ Inactive(udp.now, udp.lastActive[id])
         /\ udp' = Step([removeUDPSession(udp, udp.owner[id]) EXCEPT !.pump[id] = "returned"],
                        "timeout", udp.owner[id], "")
    /\ UDPUnchanged

\* forwardUDPResponses: the read fails because the socket was closed; the
\* session under the pump's key is removed and the pump returns
PumpReadError ==
    /\ \E id \in DOMAIN udp.pump :
         /\ udp.pump[id] = "running"
         /\ udp.socks[id] = "closed"
         /\ udp' = Step([removeUDPSession(udp, udp.owner[id]) EXCEPT !.pump[id] = "returned"],
                        "readerror", udp.owner[id], "")
    /\ UDPUnchanged

\* the ticker of cleanupUDPSessions fires
CleanerTick ==
    /\ udp' = Step(cleanupUDPSessions(udp), "cleaner", "", "")
    /\ UDPUnchanged

NextUDP ==
    \/ Advance \/ ForwardUDPLookup \/ ForwardUDPWrite
    \/ PumpResponse \/ PumpTimeout \/ PumpReadError \/ CleanerTick

InitForwardUDP ==
    InitRegistry /\ InitAgents({}) /\ InitOff(ExtNames \ {"udp"}) /\ InitUDP

SpecForwardUDP == InitForwardUDP /\ [][NextUDP]_vars

(***************************************************************************)
(* C17.  A session whose last activity lies more than 5 minutes back when  *)
(* the cleaner ticks is, at the end of the tick, absent from the session   *)
(* map and its target socket is closed, whatever its pump does; the next   *)
(* datagram from that client address creates a fresh session with a new    *)
(* target socket and a new response pump.                                  *)
(***************************************************************************)
SessionIds(u) == { u.sessions[k] : k \in DOMAIN u.sessions }

IdleEvictionStep ==
    /\ (udp'.last.op = "cleaner" /\ udp' # udp)
          => \A k \in DOMAIN udp.sessions :
                udp.now - udp.lastActive[udp.sessions[k]] > 5
                    => /\ k \notin DOMAIN udp'.sessions
                       /\ udp'.socks[udp.sessions[k]] = "closed"
    /\ \A id \in DOMAIN udp'.socks :
          id \notin SessionIds(udp') => udp'.socks[id] = "closed"
    /\ \A k \in Clients :
          ( /\ udp'.last = [op |-> "lookup", key |-> k, res |-> "created"]
            /\ udp' # udp )
          => /\ k \notin DOMAIN udp.sessions
             /\ k \in DOMAIN udp'.sessions
             /\ udp'.sessions[k] \notin DOMAIN udp.socks
             /\ udp'.socks[udp'.sessions[k]] = "open"
             /\ udp'.pump[udp'.sessions[k]] = "running"
             /\ udp'.lastActive[udp'.sessions[k]] = udp'.now
    /\ \A k \in Clients :
          ( /\ udp'.last.op = "lookup" /\ udp'.last.key = k
            /\ udp' # udp
            /\ k \notin DOMAIN udp.sessions )
          => udp'.last.res # "found"

C17_IdleSessionsEvicted == [][IdleEvictionStep]_vars

\* the cleaner has removed the first session of client X, whose pump has not
\* returned, and the next datagram of X has created a second session
C17_Witness ==
    /\ udp.last = [op |-> "lookup", key |-> "X", res |-> "created"]
    /\ 1 \in DOMAIN udp.socks
    /\ udp.owner[1] = "X"
    /\ udp.socks[1] = "closed"
    /\ udp.pump[1] = "running"
    /\ udp.sessions["X"] = 2
    /\ udp.socks[2] = "open"
    /\ udp.pump[2] = "running"

(***************************************************************************)
(* Forwarder.ForwardTCP: one client connection, the dial to the target and *)
(* the two copy goroutines.                                                *)
(***************************************************************************)
\* most chunks one direction copies
MaxChunks == 3

Directions == {"client->target", "target->client"}

\* what io.Copy returns: nil when its source reaches EOF, the error of a
\* failed read or write otherwise
CopyOutcomes(t) ==
    IF t.client = "open" /\ t.target = "open"
    THEN {"nil", "connection reset"}
    ELSE {"use of closed network connection"}

\* the error ForwardTCP returns for the first value taken from errCh
ForwardResult(err) ==
    IF err # "nil" /\ err # "EOF" THEN "forwarding error" ELSE "nil"

\* variant: ForwardTCP waits until both directions have ended
FirstResultIsIn_Both(t) == Len(t.errCh) = 2

\* err = <-errCh can proceed: a copy goroutine has sent its result
FirstResultIsIn(t) == Len(t.errCh) >= 1

InitTCP ==
    tcp = [on |-> TRUE, phase |-> "start", client |-> "open", target |-> "none",
           copy |-> [d \in Directions |-> "none"],
           moved |-> [d \in Directions |-> 0],
           errCh |-> << >>, result |-> ""]

TCPUnchanged == UNCHANGED << regVars, agentVars, peers, reconn, udp, disc, hap, moreVars >>

\* dialViaWireguard: on an error ForwardTCP returns it and the deferred
\* client.Close runs; otherwise the two copy goroutines are started
ForwardTCPDial ==
    /\ tcp.phase = "start"
    /\ \/ tcp' = [tcp EXCEPT !.phase = "returned", !.client = "closed",
                             !.result = "failed to dial target"]
       \/ tcp' = [tcp EXCEPT !.phase = "copying", !.target = "open",
                             !.copy = [d \in Directions |-> "running"]]
    /\ TCPUnchanged

\* io.Copy moves a chunk
CopyChunk ==
    /\ \E d \in Directions :
         /\ tcp.copy[d] = "running"
         /\ tcp.client = "open" /\ tcp.target = "open"
         /\ tcp.moved[d] < MaxChunks
         /\ tcp' = [tcp EXCEPT !.moved[d] = @ + 1]
    /\ TCPUnchanged

\* io.Copy returns and the goroutine sends the result to errCh (buffered, 2)
CopyEnds ==
    /\ \E d \in Directions : \E err \in CopyOutcomes(tcp) :
         /\ tcp.copy[d] = "running"
         /\ tcp' = [tcp EXCEPT !.copy[d] = "ended", !.errCh = Append(@, err)]
    /\ TCPUnchanged

\* err = <-errCh, then return: the deferred Close of target and client run
ForwardTCPReturn ==
    /\ tcp.phase = "copying"
    /\ FirstResultIsIn(tcp)
    /\ tcp' = [tcp EXCEPT !.phase = "returned", !.errCh = Tail(@),
                          !.result = ForwardResult(Head(tcp.errCh)),
                          !.client = "closed", !.target = "closed"]
    /\ TCPUnchanged

NextTCP == ForwardTCPDial \/ CopyChunk \/ CopyEnds \/ ForwardTCPReturn

InitForwardTCP ==
    InitRegistry /\ InitAgents({}) /\ InitOff(ExtNames \ {"tcp"}) /\ InitTCP

\* the goroutine that runs ForwardTCP is scheduled once errCh has a value
SpecForwardTCP == InitForwardTCP /\ [][NextTCP]_vars /\ WF_vars(ForwardTCPReturn)

(***************************************************************************)
(* C18.  ForwardTCP returns as soon as either copy direction has ended;    *)
(* when it has returned, the client socket and the target socket are       *)
(* closed; a direction that ends with EOF gives no error; when the dial    *)
(* fails an error is returned and the client connection is closed.         *)
(***************************************************************************)
ForwardTCPReturned ==
    tcp.phase = "returned" =>
        /\ tcp.client = "closed"
        /\ tcp.target \in {"closed", "none"}
        /\ tcp.target = "none" => tcp.result = "failed to dial target"
        /\ tcp.target = "closed" => tcp.result \in {"nil", "forwarding error"}

EOFIsNoErrorStep ==
    (tcp.phase = "copying" /\ tcp'.phase = "returned")
        => /\ tcp.errCh # << >>
           /\ Head(tcp.errCh) = "nil" => tcp'.result = "nil"

SomeDirectionEnded == \E d \in Directions : tcp.copy[d] = "ended"

C18_ForwardTCPReturnsOnFirstEnd ==
    /\ []ForwardTCPReturned
    /\ [][EOFIsNoErrorStep]_vars
    /\ (SomeDirectionEnded ~> tcp.phase = "returned")

\* ForwardTCP has returned without an error after the client's EOF, while
\* the copy from the target was still running
C18_Witness ==
    /\ tcp.phase = "returned"
    /\ tcp.result = "nil"
    /\ tcp.copy["client->target"] = "ended"
    /\ tcp.copy["target->client"] = "running"
    /\ tcp.client = "closed"
    /\ tcp.target = "closed"

(***************************************************************************)
(* Agent discovery: DiscoverServices, extractServiceInfo, parsePorts.      *)
(***************************************************************************)
\* most services in the cluster
MaxCluster == 2

\* a ports annotation is held as the items between its commas (trimmed),
\* each item as its parts between the slashes; the text of a number is held
\* with what strconv.ParseInt makes of it
Num(n) == [digits |-> TRUE, value |-> n]
NotNum == [digits |-> FALSE, value |-> 0]

\* strings.ToLower on the protocol names of the model
ToLower(str) ==
    CASE str = "TCP" -> "tcp"
      [] str = "UDP" -> "udp"
      [] OTHER -> str

Subset(addresses, ports) == [Addresses |-> addresses, Ports |-> ports]

Endpoints(err, subsets) == [err |-> err, Subsets |-> subsets]

K8sService(name, annotations, endpoints) ==
    [Name |-> name, Namespace |-> "default", Annotations |-> annotations,
     Endpoints |-> endpoints]

Annotated(subdomain, ports) ==
    [n \in {"subdomain", "ports"} |-> IF n = "subdomain" THEN subdomain ELSE ports]

\* the services of the cluster
ClusterServices ==
    { K8sService("web", Annotated("a", << << Num(80), "tcp" >> >>),
                 Endpoints(FALSE, << Subset(<< "10.1.0.1" >>, << 8080 >>) >>)),
      K8sService("web2", Annotated("a", << << Num(80), "tcp" >>, << Num(443), "tcp" >> >>),
                 Endpoints(FALSE, << Subset(<< "10.1.0.2", "10.1.0.3" >>, << 8080 >>) >>)),
      K8sService("dns", Annotated("b", << << Num(53), "UDP" >> >>),
                 Endpoints(FALSE, << Subset(<< "10.1.0.4" >>, << 8080 >>) >>)),
      K8sService("sctp", Annotated("c", << << Num(80), "sctp" >> >>),
                 Endpoints(FALSE, << Subset(<< "10.1.0.5" >>, << 8080 >>) >>)),
      K8sService("named", Annotated("c", << << NotNum, "tcp" >> >>),
                 Endpoints(FALSE, << Subset(<< "10.1.0.5" >>, << 8080 >>) >>)),
      K8sService("pending", Annotated("b", << << Num(80), "tcp" >> >>),
                 Endpoints(FALSE, << Subset(<< >>, << 8080 >>) >>)),
      K8sService("gone", Annotated("b", << << Num(80), "tcp" >> >>),
                 Endpoints(TRUE, << >>)),
      K8sService("portless", Annotated("c", << << Num(80), "tcp" >> >>),
                 Endpoints(FALSE, << Subset(<< "10.1.0.6" >>, << >>) >>)),
      K8sService("half", [n \in {"subdomain"} |-> "c"],
                 Endpoints(FALSE, << Subset(<< "10.1.0.7" >>, << 8080 >>) >>)),
      K8sService("plain", << >>,
                 Endpoints(FALSE, << Subset(<< "10.1.0.8" >>, << 8080 >>) >>)) }

\* parsePorts: the mappings of the items, or the first error
RECURSIVE parsePortItems(_, _, _)
parsePortItems(items, i, ports) ==
    IF i > Len(items)
    THEN IF Len(ports) = 0 THEN [err |-> "no valid ports found", ports |-> << >>]
         ELSE [err |-> "", ports |-> ports]
    ELSE LET parts == items[i]
         IN  IF Len(parts) # 2
             THEN [err |-> "invalid port format", ports |-> << >>]
             ELSE IF ~parts[1].digits
             THEN [err |-> "invalid port number", ports |-> << >>]
             ELSE LET port == [Port |-> parts[1].value, TargetPort |-> 0,
                               Protocol |-> ToLower(parts[2])]
                  IN  IF ~ValidatePortMapping(port)
                      THEN [err |-> "invalid port mapping", ports |-> << >>]
                      ELSE parsePortItems(items, i + 1, Append(ports, port))

parsePorts(portsAnnotation) ==
    IF Len(portsAnnotation) = 0
    THEN [err |-> "ports annotation is empty", ports |-> << >>]
    ELSE parsePortItems(portsAnnotation, 1, << >>)

\* the first address of the first subset, "" when there is none
PodIP(endpoints) ==
    IF Len(endpoints.Subsets) > 0 /\ Len(endpoints.Subsets[1].Addresses) > 0
    THEN endpoints.Subsets[1].Addresses[1]
    ELSE ""

\* the loop over the requested ports stops after the first one: its target
\* is the first port of the first subset
MapPorts(requestedPorts, endpoints) ==
    IF Len(requestedPorts) > 0 /\ Len(endpoints.Subsets) > 0
       /\ Len(endpoints.Subsets[1].Ports) > 0
    THEN << [Port |-> requestedPorts[1].Port,
             TargetPort |-> endpoints.Subsets[1].Ports[1],
             Protocol |-> requestedPorts[1].Protocol] >>
    ELSE << >>

Skip(err) == [emit |-> FALSE, err |-> err, svc |-> NoMessage]

Built(svc, podIP, ports) ==
    [Name |-> svc.Name, Namespace |-> svc.Namespace,
     Subdomain |-> svc.Annotations["subdomain"], Ports |-> ports, TargetIP |-> podIP]

\* variant: a service is emitted although no pod is ready
extractServiceInfo_NoReadyCheck(svc) ==
    IF ~({"subdomain", "ports"} \subseteq DOMAIN svc.Annotations) THEN Skip("")
    ELSE LET parsed == parsePorts(svc.Annotations["ports"])
         IN  IF parsed.err # "" THEN Skip("failed to parse ports annotation")
             ELSE IF svc.Endpoints.err THEN Skip("failed to get endpoints")
             ELSE LET ports == MapPorts(parsed.ports, svc.Endpoints)
                  IN  IF Len(ports) = 0 THEN Skip("no valid ports found for service")
                      ELSE [emit |-> TRUE, err |-> "",
                            svc |-> Built(svc, PodIP(svc.Endpoints), ports)]

\* extractServiceInfo: nil, nil for a service without the annotations; an
\* error for one that cannot be exposed; the ExposedService otherwise
extractServiceInfo(svc) ==
    IF ~({"subdomain", "ports"} \subseteq DOMAIN svc.Annotations) THEN Skip("")
    ELSE LET parsed == parsePorts(svc.Annotations["ports"])
         IN  IF parsed.err # "" THEN Skip("failed to parse ports annotation")
             ELSE IF svc.Endpoints.err THEN Skip("failed to get endpoints")
             ELSE IF PodIP(svc.Endpoints) = "" THEN Skip("no ready pods found for service")
             ELSE LET ports == MapPorts(parsed.ports, svc.Endpoints)
                  IN  IF Len(ports) = 0 THEN Skip("no valid ports found for service")
                      ELSE IF ~ValidateService(Built(svc, PodIP(svc.Endpoints), ports))
                      THEN Skip("service validation failed")
                      ELSE [emit |-> TRUE, err |-> "",
                            svc |-> Built(svc, PodIP(svc.Endpoints), ports)]

\* DiscoverServices: the services extracted from the list, in list order
RECURSIVE DiscoverFrom(_, _)
DiscoverFrom(items, i) ==
    IF i > Len(items) THEN << >>
    ELSE LET x == extractServiceInfo(items[i])
         IN  IF x.emit THEN << x.svc >> \o DiscoverFrom(items, i + 1)
             ELSE DiscoverFrom(items, i + 1)

DiscoverServices(items) == DiscoverFrom(items, 1)

RemoveAt(q, i) == SubSeq(q, 1, i - 1) \o SubSeq(q, i + 1, Len(q))

\* cluster: the services the API server lists; scanned (history): the list
\* of the last scan that succeeded; emitted: what that scan handed to
\* onChange; last: outcome of the last scan
InitDisc ==
    disc = [on |-> TRUE, cluster |-> << >>, scanned |-> << >>, emitted |-> << >>,
            last |-> "none"]

DiscUnchanged == UNCHANGED << regVars, agentVars, peers, reconn, udp, tcp, hap, moreVars >>

\* a service is created in the cluster
ClusterAdd ==
    /\ \E svc \in ClusterServices :
         /\ Len(disc.cluster) < MaxCluster
         /\ \A i \in 1..Len(disc.cluster) : disc.cluster[i].Name # svc.Name
         /\ disc' = [disc EXCEPT !.cluster = Append(@, svc)]
    /\ DiscUnchanged

\* a service is deleted from the cluster
ClusterDelete ==
    /\ \E i \in 1..Len(disc.cluster) :
         disc' = [disc EXCEPT !.cluster = RemoveAt(@, i)]
    /\ DiscUnchanged

\* ServiceWatcher.handleChange: a scan; when listing fails nothing is
\* handed to onChange
handleChange ==
    /\ \/ disc' = [disc EXCEPT !.last = "failed to list services"]
       \/ disc' = [disc EXCEPT !.last = "ok", !.scanned = disc.cluster,
                               !.emitted = DiscoverServices(disc.cluster)]
    /\ DiscUnchanged

NextDiscovery == ClusterAdd \/ ClusterDelete \/ handleChange

InitDiscovery ==
    InitRegistry /\ InitAgents({}) /\ InitOff(ExtNames \ {"disc"}) /\ InitDisc

SpecDiscovery == InitDiscovery /\ [][NextDiscovery]_vars

(***************************************************************************)
(* C19.  Discovery emits an ExposedService for a cluster service only if   *)
(* the service carries both annotations, its ports annotation parses and   *)
(* it has a ready endpoint address; a service failing one of these is      *)
(* skipped; no service without a backend address is emitted; the other     *)
(* services of the scan are emitted as if the skipped one were not there.  *)
(***************************************************************************)
HasBothAnnotations(svc) ==
    "subdomain" \in DOMAIN svc.Annotations /\ "ports" \in DOMAIN svc.Annotations

HasReadyAddress(svc) ==
    /\ ~svc.Endpoints.err
    /\ \E i \in 1..Len(svc.Endpoints.Subsets) : Len(svc.Endpoints.Subsets[i].Addresses) > 0

Exposable(svc) ==
    /\ HasBothAnnotations(svc)
    /\ parsePorts(svc.Annotations["ports"]).err = ""
    /\ HasReadyAddress(svc)

EmittedFor(svc) ==
    \E j \in 1..Len(disc.emitted) :
        disc.emitted[j].Name = svc.Name /\ disc.emitted[j].Namespace = svc.Namespace

C19_DiscoverySkipsUnexposable ==
    /\ \A j \in 1..Len(disc.emitted) :
          /\ disc.emitted[j].TargetIP # ""
          /\ \E i \in 1..Len(disc.scanned) :
                /\ disc.scanned[i].Name = disc.emitted[j].Name
                /\ disc.scanned[i].Namespace = disc.emitted[j].Namespace
                /\ Exposable(disc.scanned[i])
    /\ \A i \in 1..Len(disc.scanned) :
          ~Exposable(disc.scanned[i])
              => /\ ~EmittedFor(disc.scanned[i])
                 /\ disc.emitted = DiscoverServices(RemoveAt(disc.scanned, i))

\* a scan of a service with ports 80/sctp and an exposable one has emitted
\* the exposable one only
C19_Witness ==
    /\ disc.last = "ok"
    /\ Len(disc.scanned) = 2
    /\ disc.scanned[1].Name = "sctp"
    /\ disc.scanned[2].Name = "web"
    /\ Len(disc.emitted) = 1
    /\ disc.emitted[1].Name = "web"
    /\ disc.emitted[1].TargetIP = "10.1.0.1"

(***************************************************************************)
(* Automation controller: Reconcile, reconcileHAProxy and the HAProxy      *)
(* client (map file, admin socket).                                        *)
(***************************************************************************)
\* most mapping lines in the map file
MaxLines == 3

\* Controller.domain
Domain == "d"

\* fmt.Sprintf("%s.%s", subdomain, domain) and fmt.Sprintf("backend_%d", port)
Fqdn(subdomain) == << subdomain, Domain >>
BackendName(port) == << "backend", port >>

\* the services serviceGetter may return
ReconcileServices ==
    { ExposedService(sub, "10.0.0.42", << PortMapping(port, "tcp") >>) :
        sub \in {"api", "web"}, port \in {80, 443} }

\* (the getter lists the registry, which holds one service per subdomain)
ReconcileLists ==
    { q \in SeqsUpTo(ReconcileServices, 2) :
        \A i, j \in 1..Len(q) : i < j => q[i].Subdomain # q[j].Subdomain }

\* Reconcile: desiredMappings, fqdn -> backend of the first port
RECURSIVE DesiredMappings(_, _)
DesiredMappings(svcs, i) ==
    IF i = 0 THEN << >>
    ELSE LET rest == DesiredMappings(svcs, i - 1)
             svc == svcs[i]
         IN  IF Len(svc.Ports) = 0 THEN rest
             ELSE (Fqdn(svc.Subdomain) :> BackendName(svc.Ports[1].Port)) @@ rest

\* lines of the map file
Comment == [kind |-> "comment", domain |-> << >>, backend |-> << >>]
Blank == [kind |-> "blank", domain |-> << >>, backend |-> << >>]
MapLine(domain, backend) == [kind |-> "map", domain |-> domain, backend |-> backend]
Header == << Comment, Comment, Comment, Blank >>

\* GetCurrentMappings: the lines are read in order into a map, comments and
\* blank lines are skipped
RECURSIVE GetCurrentMappings(_)
GetCurrentMappings(file) ==
    IF file = << >> THEN << >>
    ELSE LET line == file[Len(file)]
             before == GetCurrentMappings(SubSeq(file, 1, Len(file) - 1))
         IN  IF line.kind = "map" /\ line.domain \notin DOMAIN before
             THEN (line.domain :> line.backend) @@ before
             ELSE IF line.kind = "map"
             THEN [before EXCEPT ![line.domain] = line.backend]
             ELSE before

Cmd(verb, domain, backend, ok) ==
    [verb |-> verb, domain |-> domain, backend |-> backend, ok |-> ok]

\* AddMapping: `add map` on the admin socket, then the line is appended;
\* h: [file, cmds, err]
AddMapping(h, domain, backend, fail) ==
    IF "add" \in fail
    THEN [h EXCEPT !.cmds = Append(@, Cmd("add map", domain, backend, FALSE)),
                   !.err = "failed to add mapping"]
    ELSE [h EXCEPT !.cmds = Append(@, Cmd("add map", domain, backend, TRUE)),
                   !.file = Append(@, MapLine(domain, backend))]

\* the mappings written back as lines, in the order `order` gives the keys
RECURSIVE LinesOf(_, _, _)
LinesOf(mappings, order, i) ==
    IF i > Len(order) THEN << >>
    ELSE IF order[i] \in DOMAIN mappings
    THEN << MapLine(order[i], mappings[order[i]]) >> \o LinesOf(mappings, order, i + 1)
    ELSE LinesOf(mappings, order, i + 1)

\* variant: the file is rewritten with the header only
RemoveMapping_HeaderOnly(h, domain, fail, order) ==
    IF "del" \in fail
    THEN [h EXCEPT !.cmds = Append(@, Cmd("del map", domain, << >>, FALSE))]
    ELSE [h EXCEPT !.cmds = Append(@, Cmd("del map", domain, << >>, TRUE)),
                   !.file = Header]

\* RemoveMapping: `del map` on the admin socket, then the file is rewritten
\* from what GetCurrentMappings reads, without the domain; an error of the
\* command is returned before the file is touched (the caller logs it)
RemoveMapping(h, domain, fail, order) ==
    IF "del" \in fail
    THEN [h EXCEPT !.cmds = Append(@, Cmd("del map", domain, << >>, FALSE))]
    ELSE LET mappings == GetCurrentMappings(h.file)
             kept == Restrict(mappings, DOMAIN mappings \ {domain})
         IN  [h EXCEPT !.cmds = Append(@, Cmd("del map", domain, << >>, TRUE)),
                       !.file = Header \o LinesOf(kept, order, 1)]

\* variant: a mapping with another backend is added without removing the old
ReconcileMapping_NoRemove(h, current, domain, backend, fail, order) ==
    IF domain \in DOMAIN current /\ current[domain] = backend THEN h
    ELSE AddMapping(h, domain, backend, fail)

\* the body of the loop of reconcileHAProxy for one desired mapping
ReconcileMapping(h, current, domain, backend, fail, order) ==
    IF domain \in DOMAIN current /\ current[domain] = backend THEN h
    ELSE IF domain \in DOMAIN current
    THEN AddMapping(RemoveMapping(h, domain, fail, order), domain, backend, fail)
    ELSE AddMapping(h, domain, backend, fail)

\* the loop, in the order the map of desired mappings is ranged over; it
\* returns at the first AddMapping error
RECURSIVE ReconcileLoop(_, _, _, _, _, _, _)
ReconcileLoop(h, current, desired, loopOrder, i, fail, order) ==
    IF i > Len(loopOrder) \/ h.err # "" THEN h
    ELSE ReconcileLoop(ReconcileMapping(h, current, loopOrder[i], desired[loopOrder[i]], fail, order),
                       current, desired, loopOrder, i + 1, fail, order)

\* reconcileHAProxy; fail: the operations that fail in this cycle
reconcileHAProxy(file, desired, loopOrder, fail, order) ==
    LET h0 == [file |-> file, cmds |-> << >>, err |-> ""]
    IN  IF "get" \in fail THEN [h0 EXCEPT !.err = "failed to get current mappings"]
        ELSE LET h == ReconcileLoop(h0, GetCurrentMappings(file), desired, loopOrder, 1, fail, order)
             IN  IF h.err # "" THEN h
                 ELSE IF "generate" \in fail
                 THEN [h EXCEPT !.err = "failed to generate HAProxy config"]
                 ELSE h

AllFqdns == { Fqdn(sub) : sub \in {"api", "web"} }

Failures == { {}, {"get"}, {"del"}, {"add"}, {"generate"}, {"del", "add"} }

MapLines(file) == { i \in 1..Len(file) : file[i].kind = "map" }

\* file: the map file (empty: not there yet); desired, cmds, err (history):
\* the desired mappings, the admin socket commands and the result of the
\* last cycle
InitHap ==
    hap = [on |-> TRUE, file |-> << >>, desired |-> << >>, cmds |-> << >>,
           err |-> "", cycles |-> 0]

HapUnchanged ==
    UNCHANGED << regVars, agentVars, peers, reconn, udp, tcp, disc, lis, snd, chn, rec, dgm, fwd, ord, lck >>

\* Reconcile: desiredPorts, the first port of every service that has ports
RECURSIVE DesiredPorts(_, _)
DesiredPorts(svcs, i) ==
    IF i = 0 THEN << >>
    ELSE IF Len(svcs[i].Ports) = 0 THEN DesiredPorts(svcs, i - 1)
    ELSE Append(DesiredPorts(svcs, i - 1), svcs[i].Ports[1].Port)

\* fmt.Sprintf("%d", port)
Itoa(port) ==
    CASE port = 22 -> "22" [] port = 80 -> "80" [] port = 443 -> "443"
      [] OTHER -> "30000"

AnySource == << "0.0.0.0/0", "::/0" >>

FirewallRule(sourceIPs, protocol, port, description) ==
    [Direction |-> "in", SourceIPs |-> sourceIPs, Protocol |-> protocol,
     Port |-> port, Description |-> description]

\* the rules a firewall holds before the controller first touches it
ExistingRuleSets ==
    { << >>,
      << FirewallRule(AnySource, "icmp", "", "") >>,
      << FirewallRule(<< "192.0.2.0/24" >>, "tcp", "22", "office ssh"),
         FirewallRule(AnySource, "tcp", "30000", "k8s-exposer") >> }

\* the (FirewallToken, FirewallID) pairs of Config
FirewallConfigs == { << "tok", "fw1" >>, << "", "fw1" >>, << "tok", "" >> }

Enabled(c) == c.token # "" /\ c.firewallID # ""

\* EnsurePortsOpen: the rules kept from currentRules
RECURSIVE KeptRules(_, _)
KeptRules(currentRules, i) ==
    IF i > Len(currentRules) THEN << >>
    ELSE IF currentRules[i].Description # "" /\ currentRules[i].Description # "k8s-exposer"
    THEN << currentRules[i] >> \o KeptRules(currentRules, i + 1)
    ELSE KeptRules(currentRules, i + 1)

\* EnsurePortsOpen: the first tcp rule of port 22, else a new SSH rule
SSHRule(currentRules) ==
    LET at == { i \in 1..Len(currentRules) :
                  currentRules[i].Port = "22" /\ currentRules[i].Protocol = "tcp" }
    IN  IF at = {} THEN FirewallRule(AnySource, "tcp", "22", "SSH")
        ELSE currentRules[CHOOSE i \in at : \A j \in at : i <= j]

ManagedRules(ports) ==
    [i \in 1..Len(ports) |-> FirewallRule(AnySource, "tcp", Itoa(ports[i]), "k8s-exposer")]

\* EnsurePortsOpen: newRules
NewRules(currentRules, ports) ==
    KeptRules(currentRules, 1)
      \o << SSHRule(currentRules),
            FirewallRule(AnySource, "tcp", "80", "HTTP"),
            FirewallRule(AnySource, "tcp", "443", "HTTPS") >>
      \o ManagedRules(ports)

ApiCall(method, rules) == [method |-> method, rules |-> rules]

\* reconcileFirewall -> EnsurePortsOpen -> GetRules, SetRules; returns the
\* API calls made, the rules the firewall holds afterwards and the error
reconcileFirewall(c, ports, fail) ==
    IF ~Enabled(c) THEN [calls |-> << >>, rules |-> c.rules, err |-> ""]
    ELSE IF "fwget" \in fail
    THEN [calls |-> << ApiCall("GET", << >>) >>, rules |-> c.rules,
          err |-> "failed to update firewall"]
    ELSE LET newRules == NewRules(c.rules, ports)
             calls == << ApiCall("GET", << >>), ApiCall("POST", newRules) >>
         IN  IF "fwset" \in fail
             THEN [calls |-> calls, rules |-> c.rules, err |-> "failed to update firewall"]
             ELSE [calls |-> calls, rules |-> newRules, err |-> ""]

\* variant: a firewall error fails the cycle as well
ReconcileResult_FirewallFails(hapErr, fwErr) == IF hapErr # "" THEN hapErr ELSE fwErr

\* what Reconcile returns: the error of reconcileHAProxy; the error of
\* reconcileFirewall is only logged
ReconcileResult(hapErr, fwErr) == hapErr

\* the counters and the gauge after a cycle that returns ret at time now
Record(c, ret, now) ==
    IF ret # ""
    THEN [c EXCEPT !.errors = @ + 1, !.ret = ret]
    ELSE [c EXCEPT !.total = @ + 1, !.lastTime = now, !.ret = ret]

\* most Reconcile cycles of a controller whose counters are followed
MaxCycles == 2

\* the operations that fail in one cycle: those of reconcileHAProxy and,
\* where the firewall is followed, those of reconcileFirewall
CycleFailures(c) ==
    IF c.on THEN Failures \cup { {"fwget"}, {"fwset"}, {"del", "fwset"} } ELSE Failures

\* the controller with its firewall client, the rules of the cloud
\* firewall, the API calls and firewall error of the last cycle (history),
\* the counters, the gauge and the clock
InitCtl ==
    \E cfg \in FirewallConfigs, rules \in ExistingRuleSets :
        /\ ~Enabled([token |-> cfg[1], firewallID |-> cfg[2]]) => Len(rules) = 2
        /\ ctl = [on |-> TRUE, token |-> cfg[1], firewallID |-> cfg[2],
                  rules |-> rules, calls |-> << >>, fwErr |-> "", ports |-> << >>,
                  errors |-> 0, total |-> 0, lastTime |-> 0, ret |-> "", now |-> 1]

\* the firewall and bookkeeping part of Reconcile, after reconcileHAProxy
\* returned hapErr
ReconcileRest(c, svcs, hapErr, fail) ==
    LET ports == DesiredPorts(svcs, Len(svcs))
        fw == IF hapErr # "" THEN [calls |-> << >>, rules |-> c.rules, err |-> ""]
              ELSE reconcileFirewall(c, ports, fail)
        done == Record(c, ReconcileResult(hapErr, fw.err), c.now)
    IN  [done EXCEPT !.rules = fw.rules, !.calls = fw.calls, !.fwErr = fw.err,
                     !.ports = ports, !.now = @ + 1]

\* Controller.Reconcile on the list the service getter returns
Reconcile ==
    /\ ctl.on => ctl.errors + ctl.total < MaxCycles
    /\ \E svcs \in ReconcileLists, fail \in CycleFailures(ctl), order \in Perms(AllFqdns) :
         LET desired == DesiredMappings(svcs, Len(svcs))
         IN  \E loopOrder \in Perms(DOMAIN desired) :
               LET h == reconcileHAProxy(hap.file, desired, loopOrder, fail, order)
               IN  /\ Cardinality(MapLines(h.file)) <= MaxLines
                   /\ hap' = [hap EXCEPT !.file = h.file, !.desired = desired,
                                         !.cmds = h.cmds, !.err = h.err,
                                         !.cycles = 1 - @]
                   /\ ctl' = IF ctl.on THEN ReconcileRest(ctl, svcs, h.err, fail)
                             ELSE ctl
    /\ HapUnchanged

NextReconcile == Reconcile

InitReconcile ==
    InitRegistry /\ InitAgents({}) /\ InitOff(ExtNames \ {"hap"}) /\ InitHap

SpecReconcile == InitReconcile /\ [][NextReconcile]_vars

InitController ==
    /\ InitRegistry /\ InitAgents({}) /\ InitOff(ExtNames \ {"hap", "ctl"})
    /\ InitHap /\ InitCtl

SpecController == InitController /\ [][NextReconcile]_vars

\* what reading the map file back yields for a fqdn: the backend of its
\* last line, "" when no line names it
ReadBack(file, fqdn) ==
    LET at == { i \in MapLines(file) : file[i].domain = fqdn }
    IN  IF at = {} THEN << >>
        ELSE file[CHOOSE i \in at : \A j \in at : j <= i].backend

\* the admin socket commands of the last cycle that name the fqdn
CmdsFor(cmds, fqdn) == SelectSeq(cmds, LAMBDA c : c.domain = fqdn)

Verbs(cmds) == [i \in 1..Len(cmds) |-> cmds[i].verb]

IsPrefix(p, q) == Len(p) <= Len(q) /\ SubSeq(q, 1, Len(p)) = p

\* the commands the cycle owes a desired fqdn, given the file it started from
Owed(file, fqdn, backend) ==
    IF ReadBack(file, fqdn) = << >> THEN << "add map" >>
    ELSE IF ReadBack(file, fqdn) = backend THEN << >>
    ELSE << "del map", "add map" >>

ReconcileCycleStep ==
    hap.on /\ hap' # hap =>
        LET desired == hap'.desired
            cmds == hap'.cmds
        IN  /\ \A i \in 1..Len(cmds) : cmds[i].domain \in DOMAIN desired
            /\ \A fqdn \in DOMAIN desired :
                 LET mine == CmdsFor(cmds, fqdn)
                     owed == Owed(hap.file, fqdn, desired[fqdn])
                 IN  \* never more than the owed commands, in the owed order
                     /\ IsPrefix(Verbs(mine), owed)
                     /\ \A i \in 1..Len(mine) :
                          mine[i].verb = "add map" => mine[i].backend = desired[fqdn]
                     \* an `add map` that went through appended the pair
                     /\ (\E i \in 1..Len(mine) : mine[i].verb = "add map" /\ mine[i].ok)
                          => \E j \in MapLines(hap'.file) :
                               hap'.file[j] = MapLine(fqdn, desired[fqdn])
                     \* a cycle that succeeds issued all of them and the
                     \* file reads back the desired backend
                     /\ hap'.err = ""
                          => /\ Verbs(mine) = owed
                             /\ ReadBack(hap'.file, fqdn) = desired[fqdn]

ControllerCycle == ctl.on /\ ctl' # ctl

Pushed(calls) == SelectSeq(calls, LAMBDA call : call.method = "POST")

Contains(rules, rule) == \E i \in 1..Len(rules) : rules[i] = rule

IsSSH(rule) == rule.Port = "22" /\ rule.Protocol = "tcp"

PushedRuleSetStep ==
    ControllerCycle =>
        LET posts == Pushed(ctl'.calls)
        IN  /\ ~Enabled(ctl) => ctl'.calls = << >>
            /\ Len(posts) <= 1
            /\ \A p \in 1..Len(posts) :
                 LET rules == posts[p].rules
                 IN  /\ \A i \in 1..Len(ctl.rules) :
                          ctl.rules[i].Description # "k8s-exposer"
                            => Contains(rules, ctl.rules[i])
                     /\ IF \E i \in 1..Len(ctl.rules) : IsSSH(ctl.rules[i])
                        THEN \E i \in 1..Len(ctl.rules) :
                               IsSSH(ctl.rules[i]) /\ Contains(rules, ctl.rules[i])
                        ELSE \E i \in 1..Len(rules) : IsSSH(rules[i])
                     /\ \A port \in {"80", "443"} :
                          \E i \in 1..Len(rules) :
                            rules[i].Port = port /\ rules[i].Protocol = "tcp"
                     /\ \A k \in 1..Len(ctl'.ports) :
                          \E i \in 1..Len(rules) :
                            /\ rules[i].Port = Itoa(ctl'.ports[k])
                            /\ rules[i].Description = "k8s-exposer"

\* C21: with firewall sync enabled, the rule set pushed in one replacement
\* call contains every pre-existing rule whose description is not the
\* managed sentinel, an SSH rule (the existing one if present, else a new
\* one), rules for ports 80 and 443 and one rule per desired external port;
\* with firewall sync not enabled no firewall call is made.
C21_PushedRuleSet == [][PushedRuleSetStep]_vars

CycleResultStep ==
    ControllerCycle =>
        IF hap'.err # ""
        THEN /\ ctl'.ret # ""
             /\ ctl'.errors = ctl.errors + 1
             /\ ctl'.total = ctl.total /\ ctl'.lastTime = ctl.lastTime
        ELSE /\ ctl'.ret = ""
             /\ ctl'.errors = ctl.errors
             /\ ctl'.total = ctl.total + 1 /\ ctl'.lastTime = ctl.now

\* C22: a reconcile cycle returns an error and increments the error
\* counter, without recording a success, exactly when the reverse-proxy
\* sync fails; a firewall sync failure neither fails the cycle nor keeps
\* the success counter and the timestamp from being recorded.
C22_CycleFailsOnlyOnProxyFailure == [][CycleResultStep]_vars

\* a cycle whose firewall sync failed and that was recorded as a success,
\* after a cycle that the reverse-proxy sync failed
C22_Witness ==
    /\ ctl.on /\ ctl.fwErr # "" /\ ctl.ret = ""
    /\ ctl.errors = 1 /\ ctl.total = 1 /\ ctl.lastTime = 2

(***************************************************************************)
(* One PortListener: Start, the accept and receive loops, the handler      *)
(* tasks they spawn, Stop.                                                 *)
(***************************************************************************)
\* most handler tasks of one listener that run at the same time
MaxTasks == 2

PortMappingTo(port, targetPort, protocol) ==
    [Port |-> port, TargetPort |-> targetPort, Protocol |-> protocol]

\* services a listener is started for (ExposedService.Validate passes)
ListenerServices ==
    { ExposedService("web", "10.0.0.42",
          << PortMappingTo(80, 8080, "tcp"), PortMappingTo(443, 8443, "tcp") >>),
      ExposedService("dns", "10.0.0.43", << PortMappingTo(53, 0, "tcp+udp") >>),
      ExposedService("game", "10.0.0.44", << PortMappingTo(7777, 0, "udp") >>) }

\* getTargetPort: the first mapping of the target with the listener's
\* protocol (or tcp+udp) decides, else the listener port
getTargetPort(pl) ==
    LET ports == pl.target.Ports
        at == { i \in 1..Len(ports) :
                  ports[i].Protocol = pl.protocol \/ ports[i].Protocol = "tcp+udp" }
    IN  IF at = {} THEN pl.port
        ELSE LET m == ports[CHOOSE i \in at : \A j \in at : i <= j]
             IN  IF m.TargetPort # 0 THEN m.TargetPort ELSE m.Port

\* stopTCP / stopUDP: the socket is closed and the field cleared
stopTCP(l) ==
    IF l.tcpListener # "nil" THEN [l EXCEPT !.tcpSock = "closed", !.tcpListener = "nil"]
    ELSE l

stopUDP(l) ==
    IF l.udpConn # "nil" THEN [l EXCEPT !.udpSock = "closed", !.udpConn = "nil"]
    ELSE l

\* startTCP / startUDP after a successful bind: the field is set, wg.Add(1)
\* and the loop goroutine is started
startTCP(l) ==
    [l EXCEPT !.tcpListener = "set", !.tcpSock = "listening", !.wg = @ + 1, !.accept = "top"]

startUDP(l) ==
    [l EXCEPT !.udpConn = "set", !.udpSock = "open", !.wg = @ + 1, !.recv = "top"]

\* Start; busy: the protocols whose bind fails
Start(l, busy) ==
    CASE l.pl.protocol = "tcp" ->
           IF "tcp" \in busy THEN [l EXCEPT !.start = "tcp failed"]
           ELSE [startTCP(l) EXCEPT !.start = "ok"]
      [] l.pl.protocol = "udp" ->
           IF "udp" \in busy THEN [l EXCEPT !.start = "udp failed"]
           ELSE [startUDP(l) EXCEPT !.start = "ok"]
      [] l.pl.protocol = "tcp+udp" ->
           IF "tcp" \in busy THEN [l EXCEPT !.start = "tcp failed"]
           ELSE IF "udp" \in busy
           THEN [stopTCP(startTCP(l)) EXCEPT !.start = "udp failed"]
           ELSE [startUDP(startTCP(l)) EXCEPT !.start = "ok"]
      [] OTHER -> [l EXCEPT !.start = "unsupported protocol"]

\* what a loop can read from a field that Stop or Start clears without
\* synchronisation: the cleared field or the value it held before
RacyRead(field) == IF field = "nil" THEN {"nil", "set"} ELSE {field}

\* pl: the listener as addServiceLocked builds it for mapping idx of its
\* service; tcpListener, udpConn: the fields; tcpSock, udpSock: the sockets;
\* accept, recv: position of the two loops; tasks: handler tasks running;
\* forwards, retried, readFailed (history): the targets handed to the
\* forwarder, Accept was called again after an error, ReadFromUDP failed
InitLis ==
    \E svc \in ListenerServices :
      \E idx \in 1..Len(svc.Ports) :
        lis = [on |-> TRUE, idx |-> idx,
               pl |-> NewPortListener(svc.Ports[idx].Port, svc.Ports[idx].Protocol, svc),
               tcpListener |-> "nil", udpConn |-> "nil",
               tcpSock |-> "none", udpSock |-> "none",
               stopCh |-> "open", wg |-> 0,
               accept |-> "none", recv |-> "none", tasks |-> 0,
               forwards |-> {}, retried |-> FALSE, readFailed |-> FALSE,
               start |-> "idle", stop |-> "idle"]

LisUnchanged ==
    UNCHANGED << regVars, agentVars, peers, reconn, udp, tcp, disc, hap,
                 ctl, snd, chn, rec, dgm, fwd, ord, lck >>

\* a panic in one goroutine ends the process
Alive == lis.on /\ lis.accept # "crashed" /\ lis.recv # "crashed"

\* addServiceLocked: listener.Start()
ListenerStart ==
    /\ Alive /\ lis.start = "idle"
    /\ \E busy \in SUBSET {"tcp", "udp"} : lis' = Start(lis, busy)
    /\ LisUnchanged

\* acceptTCPConnections: pl.tcpListener.Accept() is called
AcceptCall ==
    /\ Alive /\ lis.accept = "top"
    /\ \E seen \in RacyRead(lis.tcpListener) :
         lis' = [lis EXCEPT !.accept = IF seen = "nil" THEN "crashed" ELSE "inAccept"]
    /\ LisUnchanged

Forward(l, kind) ==
    [l EXCEPT !.tasks = @ + 1,
              !.forwards = @ \cup { << kind, l.pl.target.TargetIP, getTargetPort(l.pl) >> }]

\* Accept returns a connection: go pl.handleTCPConnection(conn)
AcceptReturnConn ==
    /\ Alive /\ lis.accept = "inAccept" /\ lis.tcpSock = "listening"
    /\ lis.tasks < MaxTasks
    /\ lis' = [Forward(lis, "tcp") EXCEPT !.accept = "top"]
    /\ LisUnchanged

\* Accept returns an error (the socket was closed): return when stopCh is
\* closed, else log and continue
AcceptReturnErr ==
    /\ Alive /\ lis.accept = "inAccept" /\ lis.tcpSock = "closed"
    /\ lis' = IF lis.stopCh = "closed"
              THEN [lis EXCEPT !.accept = "done", !.wg = @ - 1]
              ELSE [lis EXCEPT !.accept = "top", !.retried = TRUE]
    /\ LisUnchanged

\* receiveUDPPackets: stopCh is polled, then pl.udpConn.ReadFromUDP is called
RecvCall ==
    /\ Alive /\ lis.recv = "top"
    /\ \/ /\ lis.stopCh = "closed"
          /\ lis' = [lis EXCEPT !.recv = "done", !.wg = @ - 1]
       \/ /\ lis.stopCh = "open"
          /\ \E seen \in RacyRead(lis.udpConn) :
               lis' = [lis EXCEPT !.recv = IF seen = "nil" THEN "crashed" ELSE "inRead"]
    /\ LisUnchanged

\* ReadFromUDP returns a datagram: go func() { ForwardUDP(...) }
RecvDatagram ==
    /\ Alive /\ lis.recv = "inRead" /\ lis.udpSock = "open"
    /\ lis.tasks < MaxTasks
    /\ lis' = [Forward(lis, "udp") EXCEPT !.recv = "top"]
    /\ LisUnchanged

\* ReadFromUDP returns an error
RecvErr ==
    /\ Alive /\ lis.recv = "inRead" /\ lis.udpSock = "closed"
    /\ lis' = IF lis.stopCh = "closed"
              THEN [lis EXCEPT !.recv = "done", !.wg = @ - 1, !.readFailed = TRUE]
              ELSE [lis EXCEPT !.recv = "top", !.readFailed = TRUE]
    /\ LisUnchanged

\* handleTCPConnection or the datagram task returns
HandlerDone ==
    /\ Alive /\ lis.tasks > 0
    /\ lis' = [lis EXCEPT !.tasks = @ - 1]
    /\ LisUnchanged

\* removeServiceLocked: listener.Stop() up to wg.Wait()
ListenerStop ==
    /\ Alive /\ lis.start = "ok" /\ lis.stop = "idle"
    /\ lis' = [stopUDP(stopTCP([lis EXCEPT !.stopCh = "closed"])) EXCEPT !.stop = "waiting"]
    /\ LisUnchanged

\* wg.Wait() returns and so does Stop
StopReturn ==
    /\ Alive /\ lis.stop = "waiting" /\ lis.wg = 0
    /\ lis' = [lis EXCEPT !.stop = "returned"]
    /\ LisUnchanged

NextListener ==
    \/ ListenerStart \/ AcceptCall \/ AcceptReturnConn \/ AcceptReturnErr
    \/ RecvCall \/ RecvDatagram \/ RecvErr \/ HandlerDone
    \/ ListenerStop \/ StopReturn

InitListener ==
    InitRegistry /\ InitAgents({}) /\ InitOff(ExtNames \ {"lis"}) /\ InitLis

SpecListener == InitListener /\ [][NextListener]_vars

\* the port the mapping the listener was started for asks to be forwarded to
MappingTarget(m) == IF m.TargetPort # 0 THEN m.TargetPort ELSE m.Port

\* C23: for every port mapping m of a service s, the listener started for m
\* forwards each accepted connection and each received datagram to
\* s.target_ip on m.target_port when that is non-zero, and on m.port
\* otherwise.
C23_ForwardsToMappingTarget ==
    lis.on =>
        \A f \in lis.forwards :
            /\ f[2] = lis.pl.target.TargetIP
            /\ f[3] = MappingTarget(lis.pl.target.Ports[lis.idx])

\* C24: when PortListener.Stop returns, the accept/receive loop and every
\* per-connection and per-datagram handler task the listener spawned have
\* finished.
C24_StopWaitsForLoopsAndHandlers ==
    lis.on /\ lis.stop = "returned" =>
        /\ lis.accept \in {"none", "done"}
        /\ lis.recv \in {"none", "done"}
        /\ lis.tasks = 0

\* C25: when a tcp+udp listener is started and the UDP start fails, Start
\* returns the error with the TCP listener stopped: its socket is closed
\* and its accept loop ends, neither retrying Accept nor using the cleared
\* listener.
C25_FailedPairStartStopsTCP ==
    lis.on /\ lis.pl.protocol = "tcp+udp" /\ lis.start = "udp failed" =>
        /\ lis.tcpSock = "closed"
        /\ lis.accept # "crashed"
        /\ ~lis.retried

(***************************************************************************)
(* Forwarder.ForwardUDP called from concurrently running datagram tasks.   *)
(***************************************************************************)
\* datagram tasks of receiveUDPPackets that run at the same time
MaxHandlers == 3

Handlers == 1..MaxHandlers

IdleTask == [pc |-> "idle", client |-> "", session |-> 0]

\* udpMu: 0 when free, else the task that holds it; udpSessions: client
\* address -> session; owner, pumps: per session created, the client
\* address it was dialled for and the response pumps started for it;
\* closed: the sessions whose target socket was closed
InitDgm ==
    dgm = [on |-> TRUE, udpMu |-> 0, udpSessions |-> << >>,
           owner |-> << >>, pumps |-> << >>, closed |-> {},
           task |-> [t \in Handlers |-> IdleTask]]

DgmUnchanged ==
    UNCHANGED << regVars, agentVars, peers, reconn, udp, tcp, disc, hap,
                 ctl, lis, snd, chn, rec, fwd, ord, lck >>

\* variant: the session map is read and written without holding udpMu
MayLock_Unlocked(d, t) == TRUE

\* f.udpMu.Lock() returns for task t
MayLock(d, t) == d.udpMu = 0

\* receiveUDPPackets: a datagram of a client is read and its task started;
\* sessionKey := clientAddr.String()
DatagramTask ==
    /\ dgm.on
    /\ \E t \in Handlers, client \in Clients :
         /\ dgm.task[t].pc = "idle"
         /\ dgm' = [dgm EXCEPT !.task[t] = [pc |-> "lock", client |-> client, session |-> 0]]
    /\ DgmUnchanged

\* ForwardUDP: f.udpMu.Lock(); session, exists := f.udpSessions[sessionKey]
LockAndLookup ==
    /\ dgm.on
    /\ \E t \in Handlers :
         /\ dgm.task[t].pc = "lock"
         /\ MayLock(dgm, t)
         /\ LET key == dgm.task[t].client
            IN  dgm' = IF key \in DOMAIN dgm.udpSessions
                       THEN [dgm EXCEPT !.udpMu = t, !.task[t].pc = "unlock",
                                        !.task[t].session = dgm.udpSessions[key]]
                       ELSE [dgm EXCEPT !.udpMu = t, !.task[t].pc = "create"]
    /\ DgmUnchanged

\* ForwardUDP, no session found: the target is dialled, the session stored
\* and its response pump started; on a dial error the mutex is released and
\* the error returned
CreateSession ==
    /\ dgm.on
    /\ \E t \in Handlers :
         /\ dgm.task[t].pc = "create"
         /\ \/ dgm' = [dgm EXCEPT !.udpMu = 0, !.task[t] = IdleTask]
            \/ LET id == Cardinality(DOMAIN dgm.owner) + 1
                   key == dgm.task[t].client
               IN  /\ id <= MaxSessions
                   /\ dgm' = [dgm EXCEPT
                                !.owner = (id :> key) @@ @,
                                !.pumps = (id :> 1) @@ @,
                                !.udpSessions = (key :> id) @@ Restrict(@, DOMAIN @ \ {key}),
                                !.task[t].pc = "unlock",
                                !.task[t].session = id]
    /\ DgmUnchanged

\* ForwardUDP: f.udpMu.Unlock()
UnlockSessions ==
    /\ dgm.on
    /\ \E t \in Handlers :
         /\ dgm.task[t].pc = "unlock"
         /\ dgm' = [dgm EXCEPT !.udpMu = 0, !.task[t].pc = "write"]
    /\ DgmUnchanged

\* ForwardUDP: lastActive is set, the datagram written to the session's
\* target socket and the task returns
WriteToTarget ==
    /\ dgm.on
    /\ \E t \in Handlers :
         /\ dgm.task[t].pc = "write"
         /\ dgm' = [dgm EXCEPT !.task[t] = IdleTask]
    /\ DgmUnchanged

\* removeUDPSession or the cleaner, holding udpMu: the session under a key
\* is closed and deleted
RemoveSession ==
    /\ dgm.on /\ dgm.udpMu = 0
    /\ \E key \in DOMAIN dgm.udpSessions :
         dgm' = [dgm EXCEPT !.closed = @ \cup {dgm.udpSessions[key]},
                            !.udpSessions = Restrict(@, DOMAIN @ \ {key})]
    /\ DgmUnchanged

NextDatagrams ==
    \/ DatagramTask \/ LockAndLookup \/ CreateSession \/ UnlockSessions \/ WriteToTarget
    \/ RemoveSession

InitDatagrams ==
    InitRegistry /\ InitAgents({}) /\ InitOff(ExtNames \ {"dgm"}) /\ InitDgm

SpecDatagrams == InitDatagrams /\ [][NextDatagrams]_vars

\* the sessions dialled for a client address whose socket is open
SessionsOf(client) ==
    { id \in DOMAIN dgm.owner : dgm.owner[id] = client /\ id \notin dgm.closed }

\* C26: for any interleaving of concurrently handled datagrams, there is at
\* most one session per client address, exactly one target socket and one
\* response pump per session (also when the first datagrams of one client
\* are handled concurrently), and datagrams of distinct client addresses
\* use distinct sessions.
C26_OneSessionPerClient ==
    dgm.on =>
        /\ \A client \in Clients : Cardinality(SessionsOf(client)) <= 1
        /\ \A client \in DOMAIN dgm.udpSessions :
             /\ dgm.udpSessions[client] \in SessionsOf(client)
             /\ dgm.pumps[dgm.udpSessions[client]] = 1
        /\ \A id \in DOMAIN dgm.owner : dgm.pumps[id] = 1
        /\ \A t, u \in Handlers :
             /\ dgm.task[t].session # 0 /\ dgm.task[u].session # 0
             /\ dgm.task[t].client # dgm.task[u].client
             => dgm.task[t].session # dgm.task[u].session

\* two datagrams of X and one of Y are about to be written, X's two through
\* one session
C26_Witness ==
    /\ dgm.on
    /\ \E t, u, v \in Handlers :
         /\ t # u
         /\ dgm.task[t].pc = "write" /\ dgm.task[u].pc = "write" /\ dgm.task[v].pc = "write"
         /\ dgm.task[t].client = "X" /\ dgm.task[u].client = "X" /\ dgm.task[v].client = "Y"
         /\ dgm.task[t].session = dgm.task[u].session

(***************************************************************************)
(* Connection.Send called by the heartbeat goroutine and by the update     *)
(* sender of one agent: the bytes written to the connection.               *)
(***************************************************************************)
\* most frames started on one connection
MaxFrames == 3

Producers == {"heartbeat", "update"}

\* what a producer hands to Send
ProducerMessages(p) ==
    IF p = "heartbeat" THEN { HeartbeatMsg }
    ELSE { UpdateMsg(<< >>), UpdateMsg(<< SvcA >>) }

\* binary.Write of the length prefix, w.Write of the payload
LengthBytes(seq, p, data) ==
    [part |-> "length", value |-> DataLen(data), data |-> NoBytes, seq |-> seq, by |-> p]
DataBytes(seq, p, data) ==
    [part |-> "data", value |-> 0, data |-> data, seq |-> seq, by |-> p]

\* mu: "" or the producer inside Send; wire: what was written to the
\* connection, in order; broken: the connection fails every write;
\* pc, msg, seq: per producer, its position in Send, its message and the
\* number of its frame
InitSnd ==
    snd = [on |-> TRUE, mu |-> "", wire |-> << >>, broken |-> FALSE, frames |-> 0,
           pc |-> [p \in Producers |-> "idle"],
           msg |-> [p \in Producers |-> NoMessage],
           seq |-> [p \in Producers |-> 0]]

SndUnchanged ==
    UNCHANGED << regVars, agentVars, peers, reconn, udp, tcp, disc, hap,
                 ctl, lis, chn, rec, dgm, fwd, ord, lck >>

\* variant: Send writes without holding the connection's mutex
MayLockConn_Unlocked(c, p) == TRUE

\* c.mu.Lock() returns for producer p
MayLockConn(c, p) == c.mu = ""

\* SendHeartbeat / SendUpdate: c.conn.Send(msg) is called
SendCall ==
    /\ snd.on /\ snd.frames < MaxFrames
    /\ \E p \in Producers :
       \E m \in ProducerMessages(p) :
         /\ snd.pc[p] = "idle"
         /\ snd' = [snd EXCEPT !.pc[p] = "lock", !.msg[p] = m,
                               !.frames = @ + 1, !.seq[p] = snd.frames + 1]
    /\ SndUnchanged

\* Send: c.mu.Lock()
ConnLock ==
    /\ snd.on
    /\ \E p \in Producers :
         /\ snd.pc[p] = "lock"
         /\ MayLockConn(snd, p)
         /\ snd' = [snd EXCEPT !.mu = p, !.pc[p] = "locked"]
    /\ SndUnchanged

\* Send returns: the deferred c.mu.Unlock()
SendReturns(c, p) ==
    [c EXCEPT !.mu = IF @ = p THEN "" ELSE @, !.pc[p] = "idle"]

\* SendMessage: Validate, json.Marshal, binary.Write of the length
WriteLength ==
    /\ snd.on
    /\ \E p \in Producers :
         /\ snd.pc[p] = "locked"
         /\ LET sent == SendMessage(snd.msg[p])
            IN  snd' = IF sent.err # "" \/ snd.broken THEN SendReturns(snd, p)
                       ELSE [snd EXCEPT
                               !.wire = Append(@, LengthBytes(snd.seq[p], p, sent.frames[1].data)),
                               !.pc[p] = "prefixWritten"]
    /\ SndUnchanged

\* SendMessage: w.Write(data), then Send returns
WriteData ==
    /\ snd.on
    /\ \E p \in Producers :
         /\ snd.pc[p] = "prefixWritten"
         /\ snd' = IF snd.broken THEN SendReturns(snd, p)
                   ELSE SendReturns([snd EXCEPT
                          !.wire = Append(@, DataBytes(snd.seq[p], p, Marshal(snd.msg[p])))], p)
    /\ SndUnchanged

\* the connection breaks: every later write fails
ConnBreaks ==
    /\ snd.on /\ ~snd.broken
    /\ snd' = [snd EXCEPT !.broken = TRUE]
    /\ SndUnchanged

NextSend == SendCall \/ ConnLock \/ WriteLength \/ WriteData \/ ConnBreaks

InitSend ==
    InitRegistry /\ InitAgents({}) /\ InitOff(ExtNames \ {"snd"}) /\ InitSnd

SpecSend == InitSend /\ [][NextSend]_vars

\* C27: for any interleaving of the heartbeat ticker and the update sender
\* on one agent connection, frames are never interleaved on the wire: each
\* frame's length prefix is immediately followed by that frame's own
\* complete payload.
C27_FramesNotInterleaved ==
    snd.on =>
        \A i \in 1..Len(snd.wire) :
            LET b == snd.wire[i]
            IN  /\ b.part = "length" /\ i < Len(snd.wire)
                     => /\ snd.wire[i + 1].part = "data"
                        /\ snd.wire[i + 1].seq = b.seq
                        /\ DataLen(snd.wire[i + 1].data) = b.value
                /\ b.part = "length" /\ i = Len(snd.wire)
                     => snd.pc[b.by] = "prefixWritten" \/ snd.broken
                /\ b.part = "data"
                     => i > 1 /\ snd.wire[i - 1].part = "length"
                              /\ snd.wire[i - 1].seq = b.seq

\* the update sender has written the prefix of its frame while the
\* heartbeat goroutine waits for the mutex, after a complete heartbeat frame
C27_Witness ==
    /\ snd.on /\ ~snd.broken
    /\ snd.pc["update"] = "prefixWritten" /\ snd.pc["heartbeat"] = "lock"
    /\ Len(snd.wire) = 3 /\ snd.wire[1].by = "heartbeat"

(***************************************************************************)
(* C28.  Stops before starts within one Update.                            *)
(***************************************************************************)
\* the listeners a subdomain had before the call that are still running
\* after the first n events of the call
OldAlive(ev, n, sub) ==
    OwnedBy(listeners, sub) \ { ev[i].key : i \in { j \in EventIdx(ev, "stop") : j <= n } }

\* the listeners started for a subdomain within the first n events
NewStarted(ev, n, sub) ==
    { ev[i].key : i \in { j \in EventIdx(ev, "start") : j <= n /\ ev[j].sub = sub } }

StopsBeforeStartsStep ==
    UpdateCall =>
        /\ \A i \in EventIdx(events', "stop"), j \in EventIdx(events', "start") : i < j
        /\ \A sub \in DOMAIN services, n \in 0..Len(events') :
             ~(OldAlive(events', n, sub) # {} /\ NewStarted(events', n, sub) # {})

\* C28: within one Update every listener stop for removed or changed
\* services happens before any listener start, so at no point during an
\* Update does a subdomain have listeners from both its old and its new
\* configuration.
C28_StopsBeforeStarts == [][StopsBeforeStartsStep]_vars

(***************************************************************************)
(* Agent main: serviceUpdateCh between the watcher callback, the periodic  *)
(* sync and ServerClient.Run.                                              *)
(***************************************************************************)
\* make(chan []types.ExposedService, 10)
serviceUpdateChCap == 10

\* the goroutines that send on serviceUpdateCh
Senders == {"watcher", "sync"}

\* what DiscoverServices returns
Discovered == { << >>, << SvcA >> }

NoSnapshot == << "none" >>

\* buf: the channel; ctx: "live" or "done"; at, pending: per sender, "idle"
\* or "blocked" in the select, and the snapshot it is trying to send;
\* client: position of ServerClient.Run; got: the snapshot Run took last
InitChn ==
    chn = [on |-> TRUE, buf |-> << >>, ctx |-> "live",
           at |-> [g \in Senders |-> "idle"],
           pending |-> [g \in Senders |-> NoSnapshot],
           client |-> "select", got |-> NoSnapshot, last |-> "main"]

ChnUnchanged ==
    UNCHANGED << regVars, agentVars, peers, reconn, udp, tcp, disc, hap,
                 ctl, lis, snd, rec, dgm, fwd, ord, lck >>

\* select { case serviceUpdateCh <- services: case <-ctx.Done(): }: the
\* send goes through when the channel has room, else the goroutine stays
\* in the select
Offer(c, g, snapshot) ==
    IF Len(c.buf) < serviceUpdateChCap THEN [c EXCEPT !.buf = Append(@, snapshot)]
    ELSE [c EXCEPT !.at[g] = "blocked", !.pending[g] = snapshot]

\* (history) the step taken last
Did(step, c) == [c EXCEPT !.last = step]

\* an informer event (handleChange -> onChange) or a tick of the periodic
\* sync: the services are discovered and offered to the channel
Discover ==
    /\ chn.on /\ chn.ctx = "live"
    /\ \E g \in Senders, snapshot \in Discovered :
         /\ chn.at[g] = "idle"
         /\ chn' = Did("Discover", Offer(chn, g, snapshot))
    /\ ChnUnchanged

\* a goroutine blocked in the select: room appears in the channel
BlockedSend ==
    /\ chn.on
    /\ \E g \in Senders :
         /\ chn.at[g] = "blocked"
         /\ Len(chn.buf) < serviceUpdateChCap
         /\ chn' = Did("BlockedSend", [chn EXCEPT !.buf = Append(@, chn.pending[g]),
                                                  !.at[g] = "idle", !.pending[g] = NoSnapshot])
    /\ ChnUnchanged

\* a goroutine blocked in the select: ctx.Done() is closed, the snapshot is
\* dropped
BlockedCancelled ==
    /\ chn.on /\ chn.ctx = "done"
    /\ \E g \in Senders :
         /\ chn.at[g] = "blocked"
         /\ chn' = Did("BlockedCancelled", [chn EXCEPT !.at[g] = "idle", !.pending[g] = NoSnapshot])
    /\ ChnUnchanged

\* the context is cancelled (signal, or the client gave up)
Cancel ==
    /\ chn.on /\ chn.ctx = "live"
    /\ chn' = Did("Cancel", [chn EXCEPT !.ctx = "done"])
    /\ ChnUnchanged

\* Run: case services := <-onServicesChange, then SendUpdate
ClientTakes ==
    /\ chn.on /\ chn.ctx = "live" /\ chn.client = "select"
    /\ chn.buf # << >>
    /\ chn' = Did("ClientTakes", [chn EXCEPT !.buf = Tail(@), !.got = Head(chn.buf), !.client = "sending"])
    /\ ChnUnchanged

\* Run: SendUpdate returns nil, or fails and Reconnect is called
ClientSendReturns ==
    /\ chn.on /\ chn.client = "sending"
    /\ \E next \in {"select", "reconnecting"} : chn' = Did("ClientSendReturns", [chn EXCEPT !.client = next])
    /\ ChnUnchanged

\* Run: Reconnect returns (connected and resent, or the context was
\* cancelled) and the loop goes back to the select
ClientReconnectReturns ==
    /\ chn.on /\ chn.client = "reconnecting"
    /\ chn' = Did("ClientReconnectReturns", [chn EXCEPT !.client = "select"])
    /\ ChnUnchanged

NextChannel ==
    \/ Discover \/ BlockedSend \/ BlockedCancelled \/ Cancel
    \/ ClientTakes \/ ClientSendReturns \/ ClientReconnectReturns

InitChannel ==
    InitRegistry /\ InitAgents({}) /\ InitOff(ExtNames \ {"chn"}) /\ InitChn

SpecChannel == InitChannel /\ [][NextChannel]_vars

\* C29: the hand-off of a discovered snapshot from the watcher callback to
\* the agent client never blocks the watch event handler: the send on the
\* bounded channel is non-blocking, also when the channel is full because
\* the client is busy sending or reconnecting.
C29_HandOffNeverBlocks ==
    chn.on => chn.at["watcher"] # "blocked"

\* ---------------------------------------------------------------------
\* Executions of Controller.Reconcile: the timer loop of Controller.Run
\* and the POST /api/v1/sync handler, each request served by net/http in
\* a goroutine of its own.
\* ---------------------------------------------------------------------

MaxTicks == 2

MaxRequests == 2

Requests == 1..MaxRequests

\* The goroutine of Controller.Run, and one goroutine per request.
TimerLoop == [kind |-> "loop", id |-> 0]

Handler(q) == [kind |-> "http", id |-> q]

Executors == {TimerLoop} \cup { Handler(q) : q \in Requests }

\* Controller.Run after the initial wait: the loop goroutine is between
\* cycles; no request has arrived.  Controller has no lock field.
InitRec ==
    rec = [on       |-> TRUE,
           at       |-> [e \in Executors |-> "idle"],
           ticks    |-> 0,
           total    |-> 0,
           errors   |-> 0,
           overlaps |-> 0]

RecUnchanged ==
    UNCHANGED << regVars, agentVars, peers, reconn, udp, tcp, disc, hap,
                 ctl, lis, snd, chn, dgm, fwd, ord, lck >>

\* The executors that are inside Reconcile.
InReconcile(r) == { e \in Executors : r.at[e] \in {"haproxy", "firewall"} }

\* Entering Reconcile: nothing in Controller.Reconcile, Controller.Run or
\* handleSync waits for another execution to return.
EnterReconcile(r, e) ==
    [r EXCEPT !.at[e] = "haproxy",
              !.overlaps = IF InReconcile(r) # {} THEN 1 ELSE @]

\* Neither caller takes a lock before it calls Reconcile.
MayEnter(r, e) == TRUE

\* case <-ticker.C: services := serviceGetter(); c.Reconcile(services)
RunTick ==
    /\ rec.on /\ rec.at[TimerLoop] = "idle" /\ rec.ticks < MaxTicks
    /\ MayEnter(rec, TimerLoop)
    /\ rec' = [EnterReconcile(rec, TimerLoop) EXCEPT !.ticks = @ + 1]
    /\ RecUnchanged

\* handleSync: s.automation is set, services := s.registry.GetServices(),
\* s.automation.Reconcile(services)
HandleSync ==
    /\ rec.on
    /\ \E q \in Requests :
         /\ rec.at[Handler(q)] = "idle"
         /\ MayEnter(rec, Handler(q))
         /\ rec' = EnterReconcile(rec, Handler(q))
    /\ RecUnchanged

\* Where a caller is after Reconcile returned: the loop selects again, the
\* handler has written its response.
Returned(e) == IF e.kind = "loop" THEN "idle" ELSE "responded"

\* reconcileHAProxy returns: on an error Reconcile counts it and returns,
\* otherwise it goes on to the firewall.
HAProxyReturns ==
    /\ rec.on
    /\ \E e \in InReconcile(rec), hapErr \in BOOLEAN :
         /\ rec.at[e] = "haproxy"
         /\ rec' = IF hapErr
                   THEN [rec EXCEPT !.at[e] = Returned(e), !.errors = @ + 1]
                   ELSE [rec EXCEPT !.at[e] = "firewall"]
    /\ RecUnchanged

\* reconcileFirewall returns (its error is only logged); Reconcile counts
\* the cycle and returns nil.
FirewallReturns ==
    /\ rec.on
    /\ \E e \in InReconcile(rec) :
         /\ rec.at[e] = "firewall"
         /\ rec' = [rec EXCEPT !.at[e] = Returned(e), !.total = @ + 1]
    /\ RecUnchanged

NextSync == RunTick \/ HandleSync \/ HAProxyReturns \/ FirewallReturns

InitSync ==
    InitRegistry /\ InitAgents({}) /\ InitOff(ExtNames \ {"rec"}) /\ InitRec

SpecSync == InitSync /\ [][NextSync]_vars

\* C30: no two executions of Controller.Reconcile overlap in time: an
\* on-demand trigger (POST /api/v1/sync) is serialized with the timer-driven
\* cycle and with the other on-demand triggers.
C30_ReconcileExecutionsSerialized ==
    rec.on => Cardinality(InReconcile(rec)) <= 1

\* ---------------------------------------------------------------------
\* Map entries outside the desired state
\* ---------------------------------------------------------------------

\* A cycle leaves every mapping of the file whose FQDN it does not desire
\* in the file, with the backend it had.
UndesiredKeptStep ==
    hap.on =>
      LET before == GetCurrentMappings(hap.file)
          after == GetCurrentMappings(hap'.file)
      IN  \A d \in DOMAIN before :
            d \notin DOMAIN hap'.desired =>
              d \in DOMAIN after /\ after[d] = before[d]

Returning == { id \in DOMAIN udp.pump :
                 udp.pump[id] = "running" /\ udp'.pump[id] = "returned" }

\* The exit of the pump of session id leaves every other session as it
\* was: its target socket and its entry in the map.
PumpExitStep ==
    udp.on =>
      \A id \in Returning :
        \A other \in DOMAIN udp.socks \ {id} :
          /\ udp'.socks[other] = udp.socks[other]
          /\ other \in SessionIds(udp) => other \in SessionIds(udp')

\* C32: a response pump that exits destroys only the session it was
\* started for: when its session was already evicted by the idle cleaner
\* and a new session for the same client address was created meanwhile,
\* the old pump's exit neither closes the new session's target socket nor
\* deletes the new session from the map.
C32_PumpExitDestroysOwnSession == [][PumpExitStep]_vars

(***************************************************************************)
(* The Forwarder shared by the UDP listeners of the registry: the sessions *)
(* are keyed by the client address alone.                                  *)
(***************************************************************************)
\* times a listener is stopped and started again
MaxRestarts == 1

\* the registered services that have a UDP listener
UDPServices ==
    { svc \in ListenerServices : svc.Ports[1].Protocol \in {"udp", "tcp+udp"} }

UDPSubdomains == { svc.Subdomain : svc \in UDPServices }

\* the listener addServiceLocked starts for the service of a subdomain
UDPListener(sub) ==
    LET svc == CHOOSE s \in UDPServices : s.Subdomain = sub
    IN  NewPortListener(svc.Ports[1].Port, svc.Ports[1].Protocol, svc)

\* receiveUDPPackets: pl.target.TargetIP and getTargetPort()
ListenerTarget(sub) ==
    << UDPListener(sub).target.TargetIP, getTargetPort(UDPListener(sub)) >>

\* conn: per listener, the number of the socket it holds (a restart binds a
\* new one); up: the socket is open; udpSessions: client address ->
\* [serverConn, target]: the listener socket the pump replies through and
\* the address the target socket was dialled to; last (history): the last
\* datagram written
InitFwd ==
    fwd = [on |-> TRUE,
           conn |-> [sub \in UDPSubdomains |-> 1],
           up |-> [sub \in UDPSubdomains |-> TRUE],
           udpSessions |-> << >>,
           last |-> [op |-> "NewForwarder", via |-> << >>, client |-> "",
                     to |-> << >>, res |-> ""]]

FwdUnchanged ==
    UNCHANGED << regVars, agentVars, peers, reconn, udp, tcp, disc, hap,
                 ctl, lis, snd, chn, rec, dgm, ord, lck >>

\* the socket is the one its listener holds, and it is open
SocketOpen(f, serverConn) ==
    f.up[serverConn[1]] /\ f.conn[serverConn[1]] = serverConn[2]

Wrote(f, op, via, client, to, res) ==
    [f EXCEPT !.last = [op |-> op, via |-> via, client |-> client, to |-> to, res |-> res]]

\* ForwardUDP(serverConn, clientAddr, data, targetIP, targetPort): the
\* session stored under clientAddr.String() is used when there is one,
\* else the target is dialled and a session stored with its pump started
\* on serverConn; the datagram is written to the session's target socket
ForwardUDP(f, serverConn, client, target, dialOk) ==
    IF client \in DOMAIN f.udpSessions
    THEN Wrote(f, "forward", serverConn, client, f.udpSessions[client].target, "")
    ELSE IF ~dialOk
    THEN Wrote(f, "forward", serverConn, client, << >>, "failed to dial UDP target")
    ELSE Wrote([f EXCEPT !.udpSessions =
                    (client :> [serverConn |-> serverConn, target |-> target]) @@ @],
               "forward", serverConn, client, target, "")

\* receiveUDPPackets of a running listener reads a datagram and hands it
\* to the forwarder
ReceiveUDP ==
    /\ fwd.on
    /\ \E sub \in UDPSubdomains, client \in Clients, dialOk \in BOOLEAN :
         /\ fwd.up[sub]
         /\ fwd' = ForwardUDP(fwd, << sub, fwd.conn[sub] >>, client, ListenerTarget(sub), dialOk)
    /\ FwdUnchanged

\* forwardUDPResponses: the target answers and the pump writes the answer
\* to the client through the serverConn it was started with; a failed
\* write is logged and the pump goes on
PumpWritesReply ==
    /\ fwd.on
    /\ \E client \in DOMAIN fwd.udpSessions :
         LET s == fwd.udpSessions[client]
         IN  fwd' = Wrote(fwd, "reply", s.serverConn, client, s.target,
                          IF SocketOpen(fwd, s.serverConn) THEN ""
                          ELSE "use of closed network connection")
    /\ FwdUnchanged

\* PortListener.Stop (the service is removed or replaced): stopUDP closes
\* the socket; the forwarder is not told
StopUDPListener ==
    /\ fwd.on
    /\ \E sub \in UDPSubdomains :
         /\ fwd.up[sub]
         /\ fwd' = [fwd EXCEPT !.up[sub] = FALSE,
                               !.last = [@ EXCEPT !.op = "Stop", !.via = << sub, fwd.conn[sub] >>]]
    /\ FwdUnchanged

\* addServiceLocked starts a new listener for the service: a new socket
StartUDPListener ==
    /\ fwd.on
    /\ \E sub \in UDPSubdomains :
         /\ ~fwd.up[sub]
         /\ fwd.conn[sub] <= MaxRestarts
         /\ fwd' = [fwd EXCEPT !.up[sub] = TRUE, !.conn[sub] = @ + 1,
                               !.last = [@ EXCEPT !.op = "Start", !.via = << sub, fwd.conn[sub] + 1 >>]]
    /\ FwdUnchanged

\* the idle cleaner, or the pump after its own timeout, removes a session
\* that saw no traffic for 5 minutes
SessionEvicted ==
    /\ fwd.on
    /\ \E client \in DOMAIN fwd.udpSessions :
         fwd' = [fwd EXCEPT !.udpSessions = Restrict(@, DOMAIN @ \ {client}),
                            !.last = [@ EXCEPT !.op = "evict", !.client = client]]
    /\ FwdUnchanged

NextShared ==
    \/ ReceiveUDP \/ PumpWritesReply \/ StopUDPListener \/ StartUDPListener
    \/ SessionEvicted

InitShared ==
    InitRegistry /\ InitAgents({}) /\ InitOff(ExtNames \ {"fwd"}) /\ InitFwd

SpecShared == InitShared /\ [][NextShared]_vars

\* C33: every datagram received on a UDP listener is written to the target
\* address (target_ip and target_port) of that listener's own service,
\* also when the same client address has an existing session created
\* through a different UDP listener.
C33_WrittenToOwnTarget ==
    fwd.on =>
      ( fwd.last.op = "forward" /\ fwd.last.res = ""
          => fwd.last.to = ListenerTarget(fwd.last.via[1]) )

\* C36: no UDP session outlives the listener socket it replies through:
\* when a UDP listener is stopped (service removed or reconfigured), the
\* sessions created through it are destroyed, so that after the listener is
\* restarted a client that keeps sending gets its replies through the new
\* socket and no reply is written to the closed one.
C36_SessionsEndWithListener ==
    fwd.on =>
      /\ \A client \in DOMAIN fwd.udpSessions :
           SocketOpen(fwd, fwd.udpSessions[client].serverConn)
      /\ fwd.last.op = "reply" => fwd.last.res = ""

(***************************************************************************)
(* What the reconciler publishes for the services of the registry.         *)
(***************************************************************************)
\* Reconcile: port := svc.Ports[0].Port of a service GetServices returned
PublishedPort(svc) == svc.Ports[1].Port

\* the ports the listeners of the service of a subdomain are running on
ListeningPorts(sub) ==
    { listeners[k].port : k \in { j \in DOMAIN listeners : listeners[j].target.Subdomain = sub } }

\* C34: for every registered service, the port the reconciler publishes
\* for it (backend_<port> in the proxy map, 127.0.0.1:<port> in the proxy
\* config, and the firewall rule) is a port on which a listener of that
\* same service is running, also when the requested port was remapped on
\* conflict or its listener failed to start.
C34_PublishedPortIsListening ==
    \A sub \in DOMAIN services :
      Len(services[sub].Ports) > 0 =>
        PublishedPort(services[sub]) \in ListeningPorts(sub)

(***************************************************************************)
(* Updates that change the target of a registered service.                 *)
(***************************************************************************)
\* the snapshots of an agent whose services keep their requested ports
\* while their endpoints move: each service with one mapping
RetargetConfigs ==
    { ExposedService("a", "10.0.0.42", << PortMappingTo(80, tp, "tcp") >>) : tp \in {8080, 8081, 9090} }
      \cup
    { ExposedService("b", "10.0.0.43", << PortMappingTo(53, tp, "udp") >>) : tp \in {5353, 5354} }

RetargetStates ==
    { q \in SeqsUpTo(RetargetConfigs, MaxServices) :
        \A i, j \in 1..Len(q) : i < j => Rank(q[i].Subdomain) < Rank(q[j].Subdomain) }

\* Update(D) with one of these snapshots
UpdateTargets ==
    /\ \E D \in RetargetStates :
         \E rmOrder \in Perms(DOMAIN services), addOrder \in Perms(DOMAIN NewServices(D)) :
           Install(UpdateRegistry(Registry, D, rmOrder, addOrder, {}),
                   [op |-> "Update", D |-> D, sub |-> ""])
    /\ UNCHANGED agentVars
    /\ UNCHANGED extVars

NextRetarget == UpdateTargets \/ RemoveService \/ Close

SpecRetarget == Init /\ [][NextRetarget]_vars

\* the listeners that run for the service of a subdomain
ListenersOf(sub) == { k \in DOMAIN listeners : listeners[k].target.Subdomain = sub }

\* C35: after Update(D) returns, the service stored in the registry for
\* each subdomain of D and the target port its listeners dial are those
\* given in D, also when D differs from the previously applied state only
\* in a mapping's target_port.
C35_UpdateAppliesTargets ==
    lastOp.op = "Update" =>
      LET new == NewServices(lastOp.D)
      IN  \A sub \in DOMAIN new :
            /\ sub \in DOMAIN services
            /\ services[sub] = new[sub]
            /\ \A k \in ListenersOf(sub) :
                 getTargetPort(listeners[k])
                   = getTargetPort(NewPortListener(listeners[k].port, listeners[k].protocol, new[sub]))

(***************************************************************************)
(* Agent: the watcher callback and the periodic sync each discover the     *)
(* services and then send the snapshot on serviceUpdateCh.                 *)
(***************************************************************************)
\* times the exposed services of the cluster change
MaxVersions == 2

\* calls of DiscoverServices that are followed
MaxDiscoveries == 4

\* cluster: the version of the cluster state; at, holds: per sender, "idle"
\* or "listed" (DiscoverServices returned, the send has not happened), and
\* the version its snapshot was computed from; buf: serviceUpdateCh;
\* sent: the versions of the last two snapshots Run sent, oldest first
InitOrd ==
    ord = [on |-> TRUE, cluster |-> 0,
           at |-> [g \in Senders |-> "idle"],
           holds |-> [g \in Senders |-> 0],
           discoveries |-> 0,
           buf |-> << >>,
           sent |-> << >>]

OrdUnchanged ==
    UNCHANGED << regVars, agentVars, peers, reconn, udp, tcp, disc, hap,
                 ctl, lis, snd, chn, rec, dgm, fwd, lck >>

\* a service is added, changed or deleted in the cluster
ClusterChanges ==
    /\ ord.on /\ ord.cluster < MaxVersions
    /\ ord' = [ord EXCEPT !.cluster = @ + 1]
    /\ OrdUnchanged

\* handleChange after an informer event, or the ticker of the periodic
\* sync: DiscoverServices lists the services of the cluster as they are now
ListServices ==
    /\ ord.on /\ ord.discoveries < MaxDiscoveries
    /\ \E g \in Senders :
         /\ ord.at[g] = "idle"
         /\ ord' = [ord EXCEPT !.at[g] = "listed", !.holds[g] = ord.cluster,
                               !.discoveries = @ + 1]
    /\ OrdUnchanged

\* case serviceUpdateCh <- services
SendOnChannel ==
    /\ ord.on
    /\ \E g \in Senders :
         /\ ord.at[g] = "listed"
         /\ Len(ord.buf) < serviceUpdateChCap
         /\ ord' = [ord EXCEPT !.at[g] = "idle", !.buf = Append(@, ord.holds[g])]
    /\ OrdUnchanged

\* Run: case services := <-onServicesChange; SendUpdate(services)
RunSendsUpdate ==
    /\ ord.on /\ ord.buf # << >>
    /\ ord' = [ord EXCEPT !.buf = Tail(@),
                          !.sent = IF @ = << >> THEN << Head(ord.buf) >>
                                   ELSE << @[Len(@)], Head(ord.buf) >>]
    /\ OrdUnchanged

NextOrder == ClusterChanges \/ ListServices \/ SendOnChannel \/ RunSendsUpdate

InitOrder ==
    InitRegistry /\ InitAgents({}) /\ InitOff(ExtNames \ {"ord"}) /\ InitOrd

SpecOrder == InitOrder /\ [][NextOrder]_vars

\* C37: the snapshots the agent sends are applied by the server in the
\* order in which they were discovered: although the watcher callback and
\* the periodic ticker both discover and enqueue, a snapshot computed from
\* an older cluster state is never sent after a snapshot computed from a
\* newer one.
C37_SnapshotsSentInOrder ==
    ord.on => (Len(ord.sent) = 2 => ord.sent[1] <= ord.sent[2])

(***************************************************************************)
(* Firewall sync run again on the rules it stored.                         *)
(***************************************************************************)
RuleSet(rules) == { rules[i] : i \in 1..Len(rules) }

\* The cycle before stored its rule set, and this cycle pushes for the
\* same desired ports: it pushes the same rules, as many as before.
FirewallIdempotentStep ==
    ( /\ ControllerCycle
      /\ Pushed(ctl.calls) # << >> /\ ctl.fwErr = ""
      /\ Pushed(ctl'.calls) # << >>
      /\ ctl'.ports = ctl.ports )
    => LET again == Pushed(ctl'.calls)[1].rules
       IN  /\ RuleSet(again) = RuleSet(ctl.rules)
           /\ Len(again) = Len(ctl.rules)

\* C38: firewall sync is idempotent: running it twice with the same desired
\* ports, the second time against the rule set stored by the first, pushes
\* the same rule set as the first run; the SSH, HTTP and HTTPS rules are
\* not duplicated and the rule set does not grow from one reconcile cycle
\* to the next.
C38_FirewallSyncIdempotent == [][FirewallIdempotentStep]_vars

\* C39: for any interleaving of PortListener.Stop with the TCP accept
\* loop, the accept loop terminates without calling Accept on the listener
\* field after Stop has cleared it, also when a connection was accepted
\* just before the socket was closed.
C39_AcceptLoopSurvivesStop ==
    lis.on /\ lis.start = "ok" /\ lis.stop # "idle" => lis.accept # "crashed"

(***************************************************************************)
(* Forwarder: udpMu and the locks of the sessions, taken by ForwardUDP     *)
(* calls, the response pumps, the idle cleaner and Close.                  *)
(***************************************************************************)
\* ForwardUDP calls that run at the same time
MaxCallers == 1

\* sessions created
MaxPumps == 2

Callers == { << "ForwardUDP", i >> : i \in 1..MaxCallers }

Pumps == { << "pump", id >> : id \in 1..MaxPumps }

Cleaner == << "cleaner", 0 >>

Closer == << "Close", 0 >>

Tasks == Callers \cup Pumps \cup {Cleaner, Closer}

Nobody == << "nobody", 0 >>

\* the locks: f.udpMu and session.mu of each session
MapLock == << "udpMu", 0 >>

SessionLock(id) == << "mu", id >>

NoLock == << "none", 0 >>

\* udpMu, mu: the holder of each lock; udpSessions: client address ->
\* session; made: sessions created so far; pc: where each task is; key,
\* sess: the client address and the session a task works on; todo: the
\* keys the cleaner's range has not visited yet; checked (history): a
\* pump has been through session.mu
InitLck ==
    lck = [on |-> TRUE, udpMu |-> Nobody,
           mu |-> [id \in 1..MaxPumps |-> Nobody],
           udpSessions |-> << >>, made |-> 0,
           pc |-> [t \in Tasks |-> IF t \in Pumps THEN "none" ELSE "idle"],
           key |-> [t \in Tasks |-> ""],
           sess |-> [t \in Tasks |-> IF t \in Pumps THEN t[2] ELSE 0],
           todo |-> {}, checked |-> FALSE]

LckUnchanged ==
    UNCHANGED << regVars, agentVars, peers, reconn, udp, tcp, disc, hap,
                 ctl, lis, snd, chn, rec, dgm, fwd, ord >>

Holder(l, lock) == IF lock = MapLock THEN l.udpMu ELSE l.mu[lock[2]]

\* the lock a task is blocked on in Lock(), NoLock when it is not in Lock()
Wants(l, t) ==
    CASE l.pc[t] = "lockMap" -> MapLock
      [] l.pc[t] = "lockSession" -> SessionLock(l.sess[t])
      [] OTHER -> NoLock

\* Lock() returns for task t
Acquire(l, t) ==
    IF Wants(l, t) = MapLock THEN [l EXCEPT !.udpMu = t]
    ELSE [l EXCEPT !.mu[l.sess[t]] = t]

\* a task calls ForwardUDP, the cleaner's ticker fires, main calls Close:
\* each starts with f.udpMu.Lock()
CallLockMap ==
    /\ lck.on
    /\ \E t \in Callers \cup {Cleaner, Closer}, client \in Clients :
         /\ lck.pc[t] = "idle"
         /\ t \notin Callers => client = "X"
         /\ lck' = [lck EXCEPT !.pc[t] = "lockMap",
                               !.key[t] = IF t \in Callers THEN client ELSE ""]
    /\ LckUnchanged

\* a Lock() call returns: the lock is free
LockReturns ==
    /\ lck.on
    /\ \E t \in Tasks :
         /\ Wants(lck, t) # NoLock
         /\ Holder(lck, Wants(lck, t)) = Nobody
         /\ lck' = [Acquire(lck, t) EXCEPT
                      !.pc[t] = IF Wants(lck, t) = MapLock THEN "hasMap" ELSE "hasSession",
                      !.todo = IF t = Cleaner /\ Wants(lck, t) = MapLock
                               THEN DOMAIN lck.udpSessions ELSE @]
    /\ LckUnchanged

\* ForwardUDP under udpMu: the session is looked up or created and its
\* pump started; udpMu is released (also on a dial error, which returns)
ForwardUDPUnlocksMap ==
    /\ lck.on
    /\ \E t \in Callers :
         /\ lck.pc[t] = "hasMap"
         /\ LET client == lck.key[t]
                id == lck.made + 1
            IN  IF client \in DOMAIN lck.udpSessions
                THEN lck' = [lck EXCEPT !.udpMu = Nobody, !.pc[t] = "lockSession",
                                        !.sess[t] = lck.udpSessions[client]]
                ELSE \/ lck' = [lck EXCEPT !.udpMu = Nobody, !.pc[t] = "idle"]
                     \/ /\ id <= MaxPumps
                        /\ lck' = [lck EXCEPT !.udpMu = Nobody, !.pc[t] = "lockSession",
                                              !.sess[t] = id, !.made = id,
                                              !.udpSessions = (client :> id) @@ @,
                                              !.key[<< "pump", id >>] = client,
                                              !.pc[<< "pump", id >>] = "read"]
    /\ LckUnchanged

\* ForwardUDP: lastActive is set under session.mu, the lock released and
\* the datagram written
ForwardUDPUnlocksSession ==
    /\ lck.on
    /\ \E t \in Callers :
         /\ lck.pc[t] = "hasSession"
         /\ lck' = [lck EXCEPT !.mu[lck.sess[t]] = Nobody, !.pc[t] = "idle", !.sess[t] = 0]
    /\ LckUnchanged

\* forwardUDPResponses: Read returns data or a timeout (session.mu is taken
\* next), or an error (removeUDPSession is called)
PumpReads ==
    /\ lck.on
    /\ \E p \in Pumps, next \in {"lockSession", "lockMap"} :
         /\ lck.pc[p] = "read"
         /\ lck' = [lck EXCEPT !.pc[p] = next]
    /\ LckUnchanged

\* variant: the pump calls removeUDPSession before it releases session.mu
AfterCheck_RemovesLocked(l, p, inactive) ==
    IF inactive THEN [l EXCEPT !.pc[p] = "lockMap"]
    ELSE [l EXCEPT !.mu[l.sess[p]] = Nobody, !.pc[p] = "read"]

\* forwardUDPResponses under session.mu: lastActive is set, or read for the
\* inactivity check; session.mu is released, then an inactive session is
\* removed
AfterCheck(l, p, inactive) ==
    [l EXCEPT !.mu[l.sess[p]] = Nobody,
              !.pc[p] = IF inactive THEN "lockMap" ELSE "read"]

PumpUnlocksSession ==
    /\ lck.on
    /\ \E p \in Pumps, inactive \in BOOLEAN :
         /\ lck.pc[p] = "hasSession"
         /\ lck' = [AfterCheck(lck, p, inactive) EXCEPT !.checked = TRUE]
    /\ LckUnchanged

\* removeUDPSession under udpMu: the session under the key is closed and
\* deleted, udpMu released (deferred) and the pump returns
PumpRemoves ==
    /\ lck.on
    /\ \E p \in Pumps :
         /\ lck.pc[p] = "hasMap"
         /\ lck' = [lck EXCEPT !.udpMu = Nobody, !.pc[p] = "returned",
                               !.udpSessions = Restrict(@, DOMAIN @ \ {lck.key[p]})]
    /\ LckUnchanged

\* cleanupUDPSessions under udpMu: the range reaches the next session and
\* session.mu.Lock() is called; after the last, udpMu is released
CleanerRanges ==
    /\ lck.on /\ lck.pc[Cleaner] = "hasMap"
    /\ \/ /\ lck.todo = {}
          /\ lck' = [lck EXCEPT !.udpMu = Nobody, !.pc[Cleaner] = "idle"]
       \/ \E k \in lck.todo :
            lck' = [lck EXCEPT !.pc[Cleaner] = "lockSession", !.key[Cleaner] = k,
                               !.sess[Cleaner] = lck.udpSessions[k],
                               !.todo = @ \ {k}]
    /\ LckUnchanged

\* cleanupUDPSessions: lastActive is read, session.mu released and an
\* inactive session closed and deleted
CleanerUnlocksSession ==
    /\ lck.on /\ lck.pc[Cleaner] = "hasSession"
    /\ \E inactive \in BOOLEAN :
         lck' = [lck EXCEPT !.mu[lck.sess[Cleaner]] = Nobody,
                            !.pc[Cleaner] = "hasMap", !.sess[Cleaner] = 0,
                            !.key[Cleaner] = "",
                            !.udpSessions = IF inactive
                                            THEN Restrict(@, DOMAIN @ \ {lck.key[Cleaner]})
                                            ELSE @]
    /\ LckUnchanged

\* Close under udpMu: every session is closed and deleted, udpMu released
CloseReturns ==
    /\ lck.on /\ lck.pc[Closer] = "hasMap"
    /\ lck' = [lck EXCEPT !.udpMu = Nobody, !.pc[Closer] = "returned",
                          !.udpSessions = << >>]
    /\ LckUnchanged

NextLocks ==
    \/ CallLockMap \/ LockReturns \/ ForwardUDPUnlocksMap \/ ForwardUDPUnlocksSession
    \/ PumpReads \/ PumpUnlocksSession \/ PumpRemoves
    \/ CleanerRanges \/ CleanerUnlocksSession \/ CloseReturns

InitLocks ==
    InitRegistry /\ InitAgents({}) /\ InitOff(ExtNames \ {"lck"}) /\ InitLck

SpecLocks == InitLocks /\ [][NextLocks]_vars

\* the tasks of S wait for one another: each is in Lock() on a lock that a
\* task of S holds
WaitCycle(S) ==
    \A t \in S : Wants(lck, t) # NoLock /\ Holder(lck, Wants(lck, t)) \in S

HoldsSessionLock(t) == \E id \in 1..MaxPumps : lck.mu[id] = t

\* C40: no interleaving of ForwardUDP calls, response pumps, the idle
\* cleaner and Forwarder.Close deadlocks on the session-map lock and the
\* per-session locks: no task waits for the map lock while holding a
\* session lock that a holder of the map lock is waiting for.
C40_NoLockDeadlock ==
    lck.on =>
      /\ \A S \in SUBSET Tasks : S # {} => ~WaitCycle(S)
      /\ \A t \in Tasks : HoldsSessionLock(t) => Wants(lck, t) # MapLock

\* the cleaner holds udpMu and waits for the lock of a session that its
\* pump holds, while a ForwardUDP call waits for udpMu
C40_Witness ==
    /\ lck.on
    /\ lck.udpMu = Cleaner /\ lck.pc[Cleaner] = "lockSession"
    /\ \E p \in Pumps : lck.pc[p] = "hasSession" /\ lck.sess[Cleaner] = p[2]
    /\ \E t \in Callers : lck.pc[t] = "lockMap"

====
